---------------------------- MODULE Spec2Model ----------------------------
(***************************************************************************)
(* A model of the concurrent API-access engine of the Alma API toolkit:    *)
(* the transport call (api.Client.Do and the older requestWithBackoff),    *)
(* the worker pool (StartConcurrent / StartWorkers / StopConcurrent), the  *)
(* paginated member fetch (Client.SetMembers), a bulk executor             *)
(* (Client.ItemMembersScanIn) and the run that main drives.                *)
(*                                                                         *)
(* Time is counted in whole seconds since the transport call derived its   *)
(* context with the RequestTimeout.  Member links are taken to be          *)
(* well-formed URLs, so url.Parse and http.NewRequest do not fail.         *)
(***************************************************************************)
EXTENDS Integers, Sequences, FiniteSets, Bags, TLC

\* ------------------------------------------------------------- constants
\* api.RequestTimeout, in seconds.
RequestTimeout == 30
\* api.LimitParam, the page size of the member fetch.
LimitParam == 100

\* --------------------------------------------------------------- bounds
\* Client.Threshold, the configured minimum of remaining calls.
Threshold == 2
\* runtime.NumCPU(), the size of the worker pool.
NumWorkers == 2
\* The largest member list handed to a bulk executor.
MaxJobs == 3
\* A transport call is followed for at most this many HTTP attempts.
MaxAttempts == 9
\* The faults one run suffers: connection failures, unanswered attempts,
\* responses other than the expected one, and a signal.
MaxFaults == 1
\* The declared set sizes are 0, MaxExtra, LimitParam and LimitParam + MaxExtra.
MaxExtra == 1

\* ------------------------------------------------------------ processes
\* The goroutine of main (and of a direct caller of Do) and the pool's workers.
Main == 0
Workers == 1..NumWorkers
Procs == {Main} \cup Workers

VARIABLES
    variant,        \* "api": api.Client.Do; "legacy": requestWithBackoff of package main
    call,           \* per process: the state of its transport call
    baseCancelled,  \* the base context (main's ctx, or the ctx handed to Do) is cancelled
    opCancelled,    \* the context derived by StartConcurrent is cancelled
    cancelCalls,    \* how many times a cancel function has been invoked
    faultsLeft,     \* faults the run may still suffer
    mainpc,         \* where the caller of the bulk operations stands
    op,             \* the bulk operation in progress: "none", "members", "scanin",
                    \* "requests", "cancel", "holdinglists", "holdings", "update"
    set,            \* the Set handed to SetMembers: its NumberOfMembers
    dryrun,         \* the subcommand's -dryrun flag
    fetch,          \* a call of GetMemberIDs: its channels and workers
    resolve,        \* a call of SetFromNameOrID by a subcommand
    run,            \* the subcommand run: its flags, the lists it holds, report and exit code
    monitor,        \* the budget monitor goroutine of the channel variant: none, running, stopped
    clean,          \* the call of CleanupCallNumberSubfield: its argument and its result
    lookup,         \* the call of SetIDFromName: its inputs and what it returned
    jobs,           \* the jobs channel: "none", "open", "closed"
    numJobs,        \* the number of jobs the operation's loop submits
    submitted,      \* how many jobs the loop has sent so far
    worker,         \* per worker: its state and the job it runs
    job,            \* per job: how often it ran, its outcome, its HTTP attempts
    errs,           \* the error accumulator of the operation in progress, a bag:
                    \* the order of a slice filled by racing workers is arbitrary
    membersMap,     \* SetMembers' map of member IDs
    scannedIn,      \* the result accumulator of ItemMembersScanIn and of the other
                    \* bulk operations on members, a bag of the jobs that appended
    mux,            \* the worker that holds the errors mutex (em) and the output
                    \* mutex (om) of the operation, 0 when unlocked
    ret             \* what the finished operations returned

vars == <<variant, call, baseCancelled, opCancelled, cancelCalls, faultsLeft,
          mainpc, op, set, dryrun, fetch, resolve, run, monitor, clean, lookup, jobs, numJobs, submitted, worker, job, errs,
          membersMap, scannedIn, mux, ret>>

poolVars == <<mainpc, op, set, dryrun, fetch, resolve, run, monitor, clean, lookup, jobs, numJobs, submitted, worker, job,
              errs, membersMap, scannedIn, mux, ret>>

\* ------------------------------------------------------------ responses
Methods == {"GET", "POST", "DELETE", "PUT"}
Statuses == {200, 204, 500}

\* The X-Exl-Api-Remaining header: absent, not a number, or an integer.
NoHeader == [kind |-> "absent", n |-> 0]
BadHeader == [kind |-> "malformed", n |-> 0]
IntHeader(n) == [kind |-> "int", n |-> n]
RemValues == {Threshold - 1, Threshold, Threshold + 1}
Headers == {NoHeader, BadHeader} \cup {IntHeader(n) : n \in RemValues}

\* A conversion that reads whatever is not a number as zero.
AtoiZeroOnError(h) == [err |-> FALSE, n |-> IF h.kind = "int" THEN h.n ELSE 0]

\* strconv.Atoi on the header value.
Atoi(h) == IF h.kind = "int" THEN [err |-> FALSE, n |-> h.n]
                             ELSE [err |-> TRUE, n |-> 0]

\* Faults of the body: ioutil.ReadAll fails, or Body.Close fails.
Faults == {"none", "read", "close"}

\* A body: nil, a well-formed XML document listing the IDs ids, or bytes that
\* xml.Unmarshal rejects.
NoBody == [kind |-> "nil", ids |-> {}]
XMLBody(ids) == [kind |-> "xml", ids |-> ids]
Garbage == [kind |-> "garbage", ids |-> {}]

\* ------------------------------------------------------------- requests
\* Client.Host and Client.Key.
ClientHost == "api-ca.hosted.exlibrisgroup.com"
ClientKey == "key"
\* The flags -circdesk and -library of the scan-in subcommand.
CircDesk == "DEFAULT_CIRC_DESK"
Library == "MAIN"

\* A request: its method, the scheme and host of its URL, what its path
\* addresses, its query parameters and its Authorization header values.
Request(m, sch, h, t, q) ==
    [method |-> m, scheme |-> sch, host |-> h, target |-> t, query |-> q,
     auth |-> <<>>]
NoQuery == [none |-> ""]

\* The value Do gives the Authorization header.
ApiKey(k) == <<"apikey", k>>

\* A transport call that keeps a host the request names.
HostUnlessNamed(v, h) == IF h = "" THEN ClientHost ELSE h

\* The host of the request as sent: Do always sets the client's Host,
\* requestWithBackoff only when the request names none.
HostSent(v, h) == IF v = "api" THEN ClientHost ELSE IF h = "" THEN ClientHost ELSE h

\* The request after the prologue of the transport call: scheme https, the
\* host, and one more Authorization header value.
Prepare(v, r) ==
    [r EXCEPT !.scheme = "https", !.host = HostSent(v, @),
              !.auth = Append(@, ApiKey(ClientKey))]

NoResp == [status |-> 0, rem |-> NoHeader, fault |-> "none", body |-> NoBody]
Response(s, h, f, b) == [status |-> s, rem |-> h, fault |-> f, body |-> b]


\* ---------------------------------------------------------- transport call
\* The state of one transport call (the locals of Do) and what it returned.
\*   pc       "idle", "select" (blocked in the select), "inflight" (inside
\*            c.Client.Do), "returned"
\*   ctxErr   ctx.Err() of the call's context: "none", "canceled", "deadline"
\*   entered  the caller's context was already cancelled when Do was called
\*   given    the request the caller handed to Do
\*   req      the request as Do sends it
\*   sent     the requests the HTTP attempts have sent
\*   waits    the pause before each HTTP attempt, in seconds
\*   fails    connection-level failures seen
\*   resp     the response the call received, NoResp when none
\*   err      "none" until the call returns; then "nil", "canceled",
\*            "deadline", "threshold", "status", "read" or "close"
\*   invoked  the call invoked the cancellation function it was given
\*   bodyOps  what the call did with resp.Body, in order: "read", "close"
IdleCall ==
    [pc |-> "idle", method |-> "GET", given |-> Request("GET", "", "", "none", NoQuery),
     req |-> Request("GET", "", "", "none", NoQuery), sent |-> {}, backoff |-> 0, elapsed |-> 0, attempts |-> 0,
     waits |-> <<>>, fails |-> 0, ctxErr |-> "none", entered |-> FALSE,
     resp |-> NoResp, err |-> "none", body |-> NoBody, invoked |-> FALSE,
     bodyOps |-> <<>>]

\* Do's prologue: derive the context with the timeout, set scheme, host and
\* the Authorization header of the request r, backoff := 0.
NewCall(r, parentCancelled) ==
    [IdleCall EXCEPT !.pc = "select", !.method = r.method,
                     !.given = r, !.req = Prepare(variant, r),
                     !.ctxErr = IF parentCancelled THEN "canceled" ELSE "none",
                     !.entered = parentCancelled]

\* Closures that capture the caller's context instead of the derived one.
CallerContextOnly(p) == baseCancelled

\* The context a process hands to the transport call is cancelled: workers of
\* the api package use the context derived by StartConcurrent, everything
\* else uses the base context.
ParentCancelled(p) ==
    baseCancelled \/ (variant = "api" /\ p \in Workers /\ opCancelled)

\* A cancel function that undoes a cancellation when called again.
CancelToggles(cancelled) == ~cancelled

\* A cancel function that does nothing.
CancelIsNoOp(cancelled) == cancelled

\* The state of a context after its cancel function was called: cancelled,
\* whatever it was before.
AfterCancel(cancelled) == TRUE

\* A cancellation that does not reach the calls in progress.
CancelsNothing(calls, P) == calls

\* Cancelling a context cancels the contexts derived from it: every call in
\* progress of the processes in P sees ctx.Err() = Canceled from now on.
CancelIn(calls, P) ==
    [p \in Procs |->
        IF p \in P /\ calls[p].pc \in {"select", "inflight"} /\ calls[p].ctxErr = "none"
        THEN [calls[p] EXCEPT !.ctxErr = "canceled"]
        ELSE calls[p]]

\* The select's timer case can be chosen: the context is not done, or both
\* cases are ready at once (a zero pause) and the choice is random.
TimerCaseReady(c) == c.ctxErr = "none" \/ c.backoff = 0

\* A window that is still open at the moment of the deadline.
WindowClosesLate(t) == t <= RequestTimeout

\* The moment t, in seconds after the call began, lies before the deadline of
\* the context Do derived with context.WithTimeout(ctx, RequestTimeout).
WindowOpen(t) == t < RequestTimeout

\* The pause ends before the call's deadline.
PauseEndsInTime(c) == WindowOpen(c.elapsed + c.backoff)

\* A Do without the second look at ctx.Err().
NoCtxCheckAfterTimer(v) == FALSE

\* Do checks ctx.Err() again after the timer case was chosen;
\* requestWithBackoff does not.
ChecksCtxAfterTimer(v) == v = "api"

\* A backoff that doubles its step.
BackoffByTwo(b) == b + 2

\* A retry loop without a growing pause.
NoBackoff(b) == 0

\* Linear backoff: one more second after each connection-level failure.
NextBackoff(b) == b + 1

\* A comparison that leaves out equality.
ThresholdStrictlyBelow(h) == ~Atoi(h).err /\ Atoi(h).n < Threshold

\* The remaining-call count is a number at or below the threshold.
ThresholdReached(h) == ~Atoi(h).err /\ Atoi(h).n <= Threshold

\* A status test that forgets DELETE.
StatusNot200(m, s) == s # 200

\* The status is not the success status of the method.
StatusFails(m, s) == (m = "DELETE" /\ s # 204) \/ (m # "DELETE" /\ s # 200)

\* The error the call returns for a response it received.
DoResult(v, m, r) ==
    IF r.fault = "read" THEN "read"
    ELSE IF r.fault = "close" THEN "close"
    ELSE IF v = "api" /\ ThresholdReached(r.rem) THEN "threshold"
    ELSE IF StatusFails(m, r.status) THEN "status"
    ELSE "nil"

\* A requestWithBackoff that only logs the threshold.
NeverInvokesCancel(v, r) == FALSE

\* requestWithBackoff calls the base cancel function for such a response.
InvokesCancel(v, r) == v = "legacy" /\ r.fault = "none" /\ ThresholdReached(r.rem)

\* The channel variant sends the remaining-call count of a response it has
\* read and closed on the channel remAPICalls: remAPICalls <- numRemaining.
Publishes(v, r) == v = "channel" /\ r.fault = "none" /\ ~Atoi(r.rem).err

\* A read error that returns at once.
LeaksOnReadError(r) == IF r.fault = "read" THEN <<"read">> ELSE <<"read", "close">>

\* What the call does with the body of the response r: ioutil.ReadAll; on a
\* read error `_ = resp.Body.Close()` and return, otherwise
\* `err = resp.Body.Close()` before anything else is looked at.
BodyOps(r) ==
    IF r.fault = "read" THEN <<"read", "close">> ELSE <<"read", "close">>

Return(c, e, b) == [c EXCEPT !.pc = "returned", !.err = e, !.body = b]

\* case <-ctx.Done(): return the context's error.
DoCtxDone(p) ==
    /\ call[p].pc = "select"
    /\ call[p].ctxErr # "none"
    /\ call' = [call EXCEPT ![p] = Return(@, @.ctxErr, NoBody)]
    /\ UNCHANGED <<variant, baseCancelled, opCancelled, cancelCalls, faultsLeft>>
    /\ UNCHANGED poolVars

\* The deadline of the call's context passes before the pause ends, or
\* before the attempt, which would take d seconds, is answered.
DoDeadline(p, d) ==
    /\ call[p].pc \in {"select", "inflight"}
    /\ call[p].ctxErr = "none"
    /\ IF call[p].pc = "select"
       THEN ~PauseEndsInTime(call[p]) /\ UNCHANGED faultsLeft
       ELSE /\ ~WindowOpen(call[p].elapsed + d)
            /\ faultsLeft > 0
            /\ faultsLeft' = faultsLeft - 1
    /\ call' = [call EXCEPT ![p].ctxErr = "deadline", ![p].elapsed = RequestTimeout]
    /\ UNCHANGED <<variant, baseCancelled, opCancelled, cancelCalls>>
    /\ UNCHANGED poolVars

\* case <-time.After(backoff): check the context (Do only), then send.
DoTimer(p) ==
    /\ call[p].pc = "select"
    /\ TimerCaseReady(call[p])
    /\ PauseEndsInTime(call[p])
    /\ IF ChecksCtxAfterTimer(variant) /\ call[p].ctxErr # "none"
       THEN call' = [call EXCEPT ![p] = Return(@, @.ctxErr, NoBody)]
       ELSE /\ call[p].attempts < MaxAttempts
            /\ call' = [call EXCEPT ![p].pc = "inflight",
                                    ![p].elapsed = @ + call[p].backoff,
                                    ![p].attempts = @ + 1,
                                    ![p].sent = @ \cup {call[p].req},
                                    ![p].waits = Append(@, call[p].backoff)]
    /\ UNCHANGED <<variant, baseCancelled, opCancelled, cancelCalls, faultsLeft>>
    /\ UNCHANGED poolVars

\* c.Client.Do returns the context's error: the context was cancelled or
\* timed out while the attempt was in flight.
DoAttemptCtxErr(p) ==
    /\ call[p].pc = "inflight"
    /\ call[p].ctxErr # "none"
    /\ call' = [call EXCEPT ![p] = Return(@, @.ctxErr, NoBody)]
    /\ UNCHANGED <<variant, baseCancelled, opCancelled, cancelCalls, faultsLeft>>
    /\ UNCHANGED poolVars

\* c.Client.Do returns a connection-level error after d seconds: retry.
DoConnFail(p, d) ==
    /\ call[p].pc = "inflight"
    /\ call[p].ctxErr = "none"
    /\ WindowOpen(call[p].elapsed + d)
    /\ faultsLeft > 0
    /\ faultsLeft' = faultsLeft - 1
    /\ call' = [call EXCEPT ![p].pc = "select",
                            ![p].elapsed = @ + d,
                            ![p].fails = @ + 1,
                            ![p].backoff = NextBackoff(@)]
    /\ UNCHANGED <<variant, baseCancelled, opCancelled, cancelCalls>>
    /\ UNCHANGED poolVars

\* c.Client.Do returns the response r after d seconds: read and close the
\* body, look at the remaining-call header, then at the status.  A response
\* other than the expected one counts as a fault (cost 1).
DoResponse(p, r, d, cost) ==
    /\ call[p].pc = "inflight"
    /\ call[p].ctxErr = "none"
    /\ WindowOpen(call[p].elapsed + d)
    /\ faultsLeft >= cost
    /\ faultsLeft' = faultsLeft - cost
    /\ LET c == [Return(call[p], DoResult(variant, call[p].method, r),
                        IF r.fault = "read" THEN NoBody ELSE r.body)
                    EXCEPT !.elapsed = @ + d, !.resp = r,
                           !.bodyOps = @ \o BodyOps(r),
                           !.invoked = InvokesCancel(variant, r)]
           calls == [call EXCEPT ![p] = c]
       IN  IF Publishes(variant, r)
           THEN /\ call' = [call EXCEPT ![p].pc = "sending",
                                        ![p].elapsed = @ + d,
                                        ![p].bodyOps = @ \o BodyOps(r),
                                        ![p].resp = r]
                /\ UNCHANGED <<baseCancelled, cancelCalls>>
           ELSE IF InvokesCancel(variant, r)
           THEN /\ call' = CancelIn(calls, Procs)
                /\ baseCancelled' = AfterCancel(baseCancelled)
                /\ cancelCalls' = cancelCalls + 1
           ELSE /\ call' = calls
                /\ UNCHANGED <<baseCancelled, cancelCalls>>
    /\ UNCHANGED <<variant, opCancelled>>
    /\ UNCHANGED poolVars

\* One step of the transport call of process p, the server answering with an
\* expected response of R or with another one of F, after a number of
\* seconds of D.
Do(p, R, F, D) ==
    \/ DoCtxDone(p)
    \/ \E d \in D : DoDeadline(p, d)
    \/ DoTimer(p)
    \/ DoAttemptCtxErr(p)
    \/ \E d \in D : DoConnFail(p, d)
    \/ \E x \in (R \X {0}) \cup (F \X {1}), d \in D : DoResponse(p, x[1], d, x[2])

\* SIGINT or SIGTERM arrives (or the owner of the context cancels it): the
\* base context is cancelled, and with it every context derived from it.
Signal ==
    /\ ~baseCancelled
    /\ faultsLeft > 0
    /\ faultsLeft' = faultsLeft - 1
    /\ baseCancelled' = AfterCancel(baseCancelled)
    /\ cancelCalls' = cancelCalls + 1
    /\ call' = CancelIn(call, Procs)
    /\ UNCHANGED <<variant, opCancelled>>
    /\ UNCHANGED poolVars

\* ------------------------------------------ specification: one call of Do
AllResponses ==
    {Response(s, h, f, XMLBody({1})) : s \in Statuses, h \in Headers, f \in Faults}
\* An attempt is answered at once, after a second, or not before the deadline.
Durations == {0, 1, RequestTimeout}

\* The empty ID returned with an error; the set at position i has the ID i.
NoID == 0

\* No call of SetIDFromName is in progress.
NoLookup == [pc |-> "none", name |-> <<>>, reply |-> [kind |-> "error", sets |-> <<>>],
             id |-> NoID, err |-> "nil"]

\* No subcommand is resolving its set.  Of a call of SetFromNameOrID: the
\* call site, the flags -setname and -setid, the parameters name and ID of
\* SetFromNameOrID, the calls it made in order, and the error it returned.
NoResolve ==
    [pc |-> "none", site |-> "", setname |-> <<>>, setid |-> <<>>,
     name |-> <<>>, ID |-> <<>>, calls |-> <<>>, err |-> "none"]

\* No call of GetMemberIDs is in progress.  Of a call: the capacity the
\* three channels were made with, the offsets left in offsetsChan, the
\* number of elements in memberIDsChan and in errorsChan, where each worker
\* goroutine is ("select", "fetching", "sendIDs", "sendErr", "done"), and
\* where GetMemberIDs is ("none", "wait", "returned").
NoFetch ==
    [pc |-> "none", offsets |-> 0, pending |-> 0, ids |-> 0, errors |-> 0,
     at |-> <<>>, err |-> "none"]

\* No call of CleanupCallNumberSubfield is in progress.
NoClean == [pc |-> "none", arg |-> <<>>, result |-> <<>>]

\* No subcommand is running.  Of a run: the subcommand and its type and
\* subtype flags, how many bulk operations have returned since SetMembers,
\* the list the current one works through, the lists the operations
\* returned, the methods of the requests sent since the access check, the
\* report (written = FALSE while no header has been printed), the step
\* before SetMembers that failed ("key", "flags", "access", "set", "type"),
\* whether the access check or Run returned an error, and the exit code (-1
\* while the process runs).
NoRun ==
    [sub |-> "none", rtype |-> "", subtype |-> "", input |-> <<>>,
     step |-> 0, requests |-> {}, listed |-> {}, holdings |-> {},
     cleaned |-> {}, changed |-> {}, methods |-> {},
     written |-> FALSE, report |-> {}, failedAt |-> "none", failed |-> FALSE,
     exit |-> -1]

\* em := &sync.Mutex{}; om := &sync.Mutex{}
Unlocked == [em |-> 0, om |-> 0]

PoolIdle ==
    /\ op = "none"
    /\ set = 0
    /\ dryrun = FALSE
    /\ jobs = "none"
    /\ numJobs = 0
    /\ submitted = 0
    /\ worker = [w \in Workers |-> [state |-> "none", job |-> 0]]
    /\ job = <<>>
    /\ errs = EmptyBag
    /\ membersMap = {}
    /\ scannedIn = EmptyBag
    /\ mux = Unlocked
    /\ ret = [members |-> [done |-> FALSE, out |-> <<>>, errs |-> EmptyBag],
              scanin |-> [done |-> FALSE, out |-> <<>>, errs |-> EmptyBag]]

\* The requests of a direct caller: a relative URL, as http.NewRequest gives
\* for a path, with each method, one that names another host over http, and
\* one that already has an Authorization header.
CallerRequests ==
    {Request(m, "", "", "test", NoQuery) : m \in Methods}
        \cup {Request("GET", "http", "elsewhere.example", "test", NoQuery),
              [Request("POST", "", "", "test", NoQuery)
                  EXCEPT !.auth = <<<<"Bearer", "token">>>>]}

\* A caller hands Do a request and a context that may already be cancelled.
InitDo ==
    /\ variant \in {"api", "legacy"}
    /\ baseCancelled \in BOOLEAN
    /\ opCancelled = FALSE
    /\ cancelCalls = 0
    /\ faultsLeft = MaxAttempts
    /\ \E r \in CallerRequests :
          call = [p \in Procs |-> IF p = Main THEN NewCall(r, baseCancelled)
                                              ELSE IdleCall]
    /\ mainpc = "direct"
    /\ PoolIdle
    /\ fetch = NoFetch
    /\ resolve = NoResolve
    /\ run = NoRun
    /\ monitor = "none"
    /\ lookup = NoLookup
    /\ clean = NoClean

NextDo ==
    \/ Do(Main, AllResponses, {}, Durations)
    \/ Signal

SpecDo == InitDo /\ [][NextDo]_vars

\* The goroutine that runs Do keeps running.
FairSpecDo == SpecDo /\ WF_vars(Do(Main, AllResponses, {}, Durations))



\* ------------------------------------------------------------ worker pool
\* What is known of a job: how often a worker ran it, the error it ended with
\* ("none" while it has not ended, "nil" for success), the HTTP attempts made
\* for it, whether cancel had been invoked when it was submitted, the member
\* IDs it fetched, and the requests it sent.
NoJob ==
    [runs |-> 0, err |-> "none", attempts |-> 0, fails |-> 0, late |-> FALSE,
     ids |-> {}, sent |-> {}]

\* An entry of an error list.
Err(kind, j) == [kind |-> kind, job |-> j, found |-> 0, expected |-> 0]
\* "%v members found for set with size %v"
Mismatch(found, expected) ==
    [kind |-> "mismatch", job |-> 0, found |-> found, expected |-> expected]

NoRet == [done |-> FALSE, out |-> <<>>, errs |-> EmptyBag]

\* A loop that hands every closure the loop variable itself.
SharedLoopVariable(i, n) == n

\* The item the i-th closure of n works on: the loop copies the loop variable
\* (member := member; offset := i * LimitParam) before building the closure.
ClosureJob(i, n) == i

\* Every request is a GET.
AlwaysGet(o) == "GET"

\* A client whose item requests were copied from UserRequestCancel.
DeleteOnItems(o) == IF o \in {"requests", "cancel"} THEN "DELETE" ELSE "GET"

\* http.NewRequest("POST", ...) for a scan, "DELETE" for the cancellation of
\* a user request, "PUT" for the update of a holding, "GET" for a page, the
\* requests on an item, the holdings of a bib and a holdings record.
MethodOf(o) ==
    CASE o = "scanin" -> "POST"
      [] o = "cancel" -> "DELETE"
      [] o = "update" -> "PUT"
      [] OTHER -> "GET"

\* The offset of the j-th page job.
OffsetOf(j) == (j - 1) * LimitParam

\* The request the j-th closure of operation o builds: the scan of member j
\* (ItemMemberScanIn), or the page at the j-th offset (setMembersLimitOffset).
\* The links the server gave name the server's host over https.
RequestOf(o, j) ==
    IF o = "scanin"
    THEN Request(MethodOf(o), "https", "link.example", j,
                 [op |-> "scan", register_in_house_use |-> "false",
                  circ_desk |-> CircDesk, library |-> Library])
    ELSE IF o = "members"
    THEN Request(MethodOf(o), "https", "link.example", "members",
                 [limit |-> LimitParam, offset |-> OffsetOf(j)])
    ELSE \* member.Link + "/requests", request.Member.Link + "/requests/" +
         \* request.ID, member.Link + "/holdings", holdingListMember.Link
         Request(MethodOf(o), "https", "link.example", <<o, run.input[j]>>, NoQuery)

\* A job that ignores the threshold error.
NeverCancels(e) == FALSE

\* A job that cancels the operation on any error.
CancelsOnAnyError(e) == e # "nil"

\* The closure calls cancel() when errors.As finds a *ThresholdReachedError.
CancelsOn(e) == e = "threshold"

\* A merge that keeps only the page fetched last.
KeepLastPage(m, ids) == ids

\* for _, member := range members { membersMap[member.ID] = member }
MergePage(m, ids) == m \cup ids

\* A check that only rejects too few members.
TooFewOnly(found, n) == found < n

\* A SetMembers without the count check.
NeverMismatch(found, n) == FALSE

\* len(membersMap) != set.NumberOfMembers
CountMismatch(found, n) == found # n

\* A page count that always adds the extra offset.
AlwaysOneMore(n) == (n \div LimitParam) + 1

\* The number of pages: NumberOfMembers / LimitParam, one more for a remainder.
Offsets(n) == (n \div LimitParam) + (IF n % LimitParam # 0 THEN 1 ELSE 0)

\* The members of a map as a list, each once (Go's order is arbitrary; the
\* ascending one stands for it).
SeqOf(S) ==
    [i \in 1..Cardinality(S) |->
        CHOOSE x \in S : Cardinality({y \in S : y <= x}) = i]

\* The error a job ends with: the transport's, or the unmarshalling error
\* (UserRequestCancel drops the body: _, err = c.Do(ctx, r)).
JobError(c) ==
    IF c.err = "nil" /\ op # "cancel" /\ c.body.kind # "xml" THEN "unmarshal"
    ELSE c.err

\* StartConcurrent: derive a cancellable context, make the mutexes and the
\* unbuffered jobs channel, start NumCPU workers.
StartConcurrent(o, n) ==
    /\ op' = o
    /\ numJobs' = n
    /\ submitted' = 0
    /\ opCancelled' = FALSE
    /\ jobs' = "open"
    /\ worker' = [w \in Workers |-> [state |-> "idle", job |-> 0]]
    /\ job' = [j \in 1..n |-> NoJob]
    /\ errs' = EmptyBag
    /\ mux' = Unlocked
    /\ mainpc' = "submit"

\* Workers that never reach the receive.
NoWorkerReceives(w) == FALSE

\* A buffered channel: the send completes whether or not a worker is free.
SendNeverBlocks(w) == TRUE

\* The workers run the same loop and are interchangeable, so of the workers
\* blocked in the receive, the one with the lowest number stands for whichever
\* the runtime picks.
Receives(w) ==
    /\ worker[w].state = "idle"
    /\ \A v \in Workers : worker[v].state = "idle" => w <= v

\* jobs <- func() {...}: the loop hands its next closure to a worker blocked
\* in "for job := range jobs"; the worker runs it up to the call of Do.
Submit(w) ==
    /\ mainpc = "submit"
    /\ submitted < numJobs
    /\ Receives(w)
    /\ LET j == ClosureJob(submitted + 1, numJobs)
       IN  /\ worker' = [worker EXCEPT ![w] = [state |-> "running", job |-> j]]
           /\ job' = [job EXCEPT ![j].runs = @ + 1, ![j].late = opCancelled]
           /\ call' = [call EXCEPT ![w] = NewCall(RequestOf(op, j), ParentCancelled(w))]
    /\ submitted' = submitted + 1
    /\ UNCHANGED <<variant, baseCancelled, opCancelled, cancelCalls, faultsLeft,
                   mainpc, op, set, dryrun, fetch, resolve, run, monitor, clean, lookup, jobs, numJobs, errs, membersMap,
                   scannedIn, ret>>
    /\ UNCHANGED mux

\* An append that drops what the slice held.
KeepsLastOnly(bag, e) == SetToBag({e})

\* A slice with one more element.
Add(bag, e) == bag (+) SetToBag({e})

\* The closure of worker w up to its mutex: the error e its request ended
\* with is known, and on a threshold error it calls cancel().
Outcome(w) ==
    LET j == worker[w].job
        e == JobError(call[w])
        calls == [call EXCEPT ![w] = IdleCall]
    IN  /\ job' = [job EXCEPT ![j].err = e,
                              ![j].attempts = @ + call[w].attempts,
                              ![j].fails = @ + call[w].fails,
                              ![j].ids = IF e = "nil" THEN call[w].body.ids ELSE {},
                              ![j].sent = @ \cup call[w].sent]
        /\ IF CancelsOn(e)
           THEN /\ opCancelled' = AfterCancel(opCancelled)
                /\ cancelCalls' = cancelCalls + 1
                /\ call' = CancelIn(calls, Workers)
           ELSE /\ call' = calls
                /\ UNCHANGED <<opCancelled, cancelCalls>>

\* The write of the closure: the error goes to errs, a page into membersMap,
\* the result of any other job to the output list of its operation (the
\* accumulator holds the job, the job what it fetched).
Accumulate(j, e, ids) ==
    IF e # "nil"
    THEN /\ errs' = Add(errs, Err(e, j))
         /\ UNCHANGED <<membersMap, scannedIn>>
    ELSE IF op = "members"
    THEN /\ membersMap' = MergePage(membersMap, ids)
         /\ UNCHANGED <<errs, scannedIn>>
    ELSE /\ scannedIn' = Add(scannedIn, j)
         /\ UNCHANGED <<errs, membersMap>>

\* The closure after its request returned: on a threshold error it calls
\* cancel(); it appends the error to errs under the errors mutex, or the
\* result to the output under the output mutex; the worker is back in its
\* range loop.  Nothing reads the accumulators before wg.Wait() returns and
\* the mutexes keep the writers apart (SpecMutex takes the same statements
\* one at a time), so the write is at no other moment than the end of the
\* closure.
JobEnd(w) ==
    /\ worker[w].state = "running"
    /\ call[w].pc = "returned"
    /\ Outcome(w)
    /\ Accumulate(worker[w].job, JobError(call[w]),
                  IF JobError(call[w]) = "nil" THEN call[w].body.ids ELSE {})
    /\ worker' = [worker EXCEPT ![w] = [state |-> "idle", job |-> 0]]
    /\ UNCHANGED <<variant, baseCancelled, faultsLeft, mainpc, op, set, dryrun, fetch, resolve, run, monitor, clean, lookup,
                   jobs, numJobs, submitted, mux, ret>>

\* The closure of worker w, statement by statement.  First the request
\* returns and cancel() is called on a threshold error.
JobReturns(w) ==
    /\ worker[w].state = "running"
    /\ call[w].pc = "returned"
    /\ Outcome(w)
    /\ worker' = [worker EXCEPT ![w].state = "locking"]
    /\ UNCHANGED <<variant, baseCancelled, faultsLeft, mainpc, op, set, dryrun, fetch, resolve, run, monitor, clean, lookup,
                   jobs, numJobs, submitted, errs, membersMap, scannedIn, mux,
                   ret>>

\* The mutex the closure takes: em for an error, om for a result.
MutexOf(e) == IF e # "nil" THEN "em" ELSE "om"

\* A Lock that never blocks.
LockNeverBlocks(h) == TRUE

\* Lock() returns only when nobody holds the mutex.
MutexFree(h) == h = 0

\* em.Lock() or om.Lock().
JobLock(w) ==
    /\ worker[w].state = "locking"
    /\ LET a == MutexOf(job[worker[w].job].err)
       IN  /\ MutexFree(mux[a])
           /\ mux' = [mux EXCEPT ![a] = w]
    /\ worker' = [worker EXCEPT ![w].state = "writing"]
    /\ UNCHANGED <<variant, call, baseCancelled, opCancelled, cancelCalls,
                   faultsLeft, mainpc, op, set, dryrun, fetch, resolve, run, monitor, clean, lookup, jobs, numJobs, submitted,
                   job, errs, membersMap, scannedIn, ret>>

\* errs = append(errs, err), or the write of the result.
JobWrite(w) ==
    /\ worker[w].state = "writing"
    /\ LET j == worker[w].job
       IN  Accumulate(j, job[j].err, job[j].ids)
    /\ worker' = [worker EXCEPT ![w].state = "unlocking"]
    /\ UNCHANGED <<variant, call, baseCancelled, opCancelled, cancelCalls,
                   faultsLeft, mainpc, op, set, dryrun, fetch, resolve, run, monitor, clean, lookup, jobs, numJobs, submitted,
                   job, mux, ret>>

\* The deferred Unlock() as the closure returns; the worker is back in its
\* range loop.
JobUnlock(w) ==
    /\ worker[w].state = "unlocking"
    /\ mux' = [mux EXCEPT ![MutexOf(job[worker[w].job].err)] = 0]
    /\ worker' = [worker EXCEPT ![w] = [state |-> "idle", job |-> 0]]
    /\ UNCHANGED <<variant, call, baseCancelled, opCancelled, cancelCalls,
                   faultsLeft, mainpc, op, set, dryrun, fetch, resolve, run, monitor, clean, lookup, jobs, numJobs, submitted,
                   job, errs, membersMap, scannedIn, ret>>

\* The range loop of a worker ends when the channel is closed: wg.Done().
WorkerExit(w) ==
    /\ jobs = "closed"
    /\ worker[w].state = "idle"
    /\ worker' = [worker EXCEPT ![w].state = "exited"]
    /\ UNCHANGED <<variant, call, baseCancelled, opCancelled, cancelCalls,
                   faultsLeft, mainpc, op, set, dryrun, fetch, resolve, run, monitor, clean, lookup, jobs, numJobs, submitted,
                   job, errs, membersMap, scannedIn, ret>>
    /\ UNCHANGED mux

\* StopConcurrent, first half: close(jobs) once the loop has sent every job.
CloseJobs ==
    /\ mainpc = "submit"
    /\ submitted = numJobs
    /\ jobs' = "closed"
    /\ mainpc' = "wait"
    /\ UNCHANGED <<variant, call, baseCancelled, opCancelled, cancelCalls,
                   faultsLeft, op, set, dryrun, fetch, resolve, run, monitor, clean, lookup, numJobs, submitted, worker, job,
                   errs, membersMap, scannedIn, ret>>
    /\ UNCHANGED mux

\* A StopConcurrent that does not wait.
ReturnsAfterClose == mainpc = "wait"

\* wg.Wait() returns: every worker has exited.
WaitReturns == mainpc = "wait" /\ \A w \in Workers : worker[w].state = "exited"

\* ----------------------------------------------------------- SetMembers
\* SetMembers up to the start of its loop.
CallSetMembers ==
    /\ mainpc = "start"
    /\ membersMap' = {}
    /\ StartConcurrent("members", Offsets(set))
    /\ UNCHANGED <<variant, call, baseCancelled, cancelCalls, faultsLeft, set,
                   dryrun, fetch, resolve, run, monitor, clean, lookup, scannedIn, ret>>

\* SetMembers after StopConcurrent: the count check, the member list, and the
\* deferred cancel().
SetMembersReturn ==
    /\ WaitReturns
    /\ op = "members"
    /\ LET found == Cardinality(membersMap)
       IN  ret' = [ret EXCEPT !.members =
                      IF CountMismatch(found, set)
                      THEN [done |-> TRUE, out |-> <<>>,
                            errs |-> Add(errs, Mismatch(found, set))]
                      ELSE [done |-> TRUE, out |-> SeqOf(membersMap), errs |-> errs]]
    /\ opCancelled' = AfterCancel(opCancelled)
    /\ cancelCalls' = cancelCalls + 1
    /\ op' = "none"
    /\ mainpc' = "fetched"
    /\ UNCHANGED <<variant, call, baseCancelled, faultsLeft, set, dryrun, fetch, resolve, run, monitor, clean, lookup, jobs,
                   numJobs, submitted, worker, job, errs, membersMap, scannedIn>>
    /\ UNCHANGED mux

\* ------------------------------------------------------ the scan-in run
\* The subcommand stops after a failed member fetch, or reports without
\* scanning in dry-run mode.
SubcommandReturns ==
    /\ mainpc = "fetched"
    /\ ret.members.errs # EmptyBag \/ dryrun
    /\ mainpc' = "cleanup"
    /\ UNCHANGED <<variant, call, baseCancelled, opCancelled, cancelCalls,
                   faultsLeft, op, set, dryrun, fetch, resolve, run, monitor, clean, lookup, jobs, numJobs, submitted, worker,
                   job, errs, membersMap, scannedIn, ret>>
    /\ UNCHANGED mux

\* ItemMembersScanIn up to the start of its loop.
CallScanIn ==
    /\ mainpc = "fetched"
    /\ ret.members.errs = EmptyBag
    /\ ~dryrun
    /\ scannedIn' = EmptyBag
    /\ StartConcurrent("scanin", Len(ret.members.out))
    /\ UNCHANGED <<variant, call, baseCancelled, cancelCalls, faultsLeft, set,
                   dryrun, fetch, resolve, run, monitor, clean, lookup, membersMap, ret>>

\* ItemMembersScanIn after StopConcurrent, and its deferred cancel().
ScanInReturn ==
    /\ WaitReturns
    /\ op = "scanin"
    /\ ret' = [ret EXCEPT !.scanin = [done |-> TRUE, out |-> scannedIn, errs |-> errs]]
    /\ opCancelled' = AfterCancel(opCancelled)
    /\ cancelCalls' = cancelCalls + 1
    /\ op' = "none"
    /\ mainpc' = "cleanup"
    /\ UNCHANGED <<variant, call, baseCancelled, faultsLeft, set, dryrun, fetch, resolve, run, monitor, clean, lookup, jobs,
                   numJobs, submitted, worker, job, errs, membersMap, scannedIn>>
    /\ UNCHANGED mux

\* main after sub.Run returned: cancel() the base context, wg.Wait(), os.Exit.
MainExit ==
    /\ mainpc = "cleanup"
    /\ baseCancelled' = AfterCancel(baseCancelled)
    /\ cancelCalls' = cancelCalls + 1
    /\ mainpc' = "exited"
    /\ UNCHANGED <<variant, call, opCancelled, faultsLeft, op, set, dryrun, fetch, resolve, run, monitor, clean, lookup, jobs,
                   numJobs, submitted, worker, job, errs, membersMap, scannedIn, ret>>
    /\ UNCHANGED mux

\* ------------------------------------------------------------ the server
\* The page of limit LimitParam at offset o of a member list of m members,
\* the members being numbered from 1.
Page(o, m) == {i \in 1..m : o < i /\ i <= o + LimitParam}

\* What a page request at offset o may be answered with, the set declaring n
\* members: the page of the set as declared, of a set that has grown or
\* shrunk by one since, a page that starts one member early (and so repeats
\* the last member of the page before), or bytes that are no XML.
PageBodies(o, n) ==
    {XMLBody(Page(o, n)), XMLBody(Page(o, n + 1)),
     XMLBody(Page(o, IF n > 0 THEN n - 1 ELSE 0)),
     XMLBody({i \in 1..n : o <= i /\ i < o + LimitParam}),
     Garbage}

\* A non-success status, and a success whose remaining-call count has
\* reached the threshold.
FailureResponses ==
    {Response(500, NoHeader, "none", Garbage),
     Response(200, IntHeader(Threshold), "none", XMLBody({}))}

\* The user requests Alma may hold on the items of the set, and the holdings
\* records it may hold for the bibs of the set, with the call number in
\* subfield h of field 852; a request is on one item, a holding of one bib.
RequestsInAlma ==
    {[id |-> 1, type |-> "HOLD", subtype |-> "PATRON_PHYSICAL"],
     [id |-> 2, type |-> "HOLD", subtype |-> "PATRON_DIGITIZATION"]}
HoldingsInAlma ==
    {[id |-> 1, call |-> <<"1", "a">>], [id |-> 2, call |-> <<"a">>]}

\* The requests, or holdings, the server has not listed under another member.
Unlisted(w) ==
    {x.id : x \in IF op = "requests" THEN RequestsInAlma ELSE HoldingsInAlma}
    \ (UNION {job[k].ids : k \in DOMAIN job}
       \cup UNION {call[v].body.ids : v \in Workers \ {w}})

\* The response the request of worker w expects: the page as declared, the
\* item scanned in, the requests on the item or the holdings of the bib, the
\* holdings record asked for or as updated, 204 No Content for a DELETE.
Expected(w) ==
    CASE op = "members" ->
           {Response(200, NoHeader, "none", XMLBody(Page(OffsetOf(worker[w].job), set)))}
      [] op = "scanin" -> {Response(200, NoHeader, "none", XMLBody({}))}
      [] op \in {"requests", "holdinglists"} ->
           {Response(200, NoHeader, "none", XMLBody(S)) : S \in SUBSET Unlisted(w)}
      [] op \in {"holdings", "update"} /\ worker[w].job # 0 ->
           {Response(200, NoHeader, "none", XMLBody({run.input[worker[w].job]}))}
      [] op = "cancel" -> {Response(204, NoHeader, "none", NoBody)}
      [] OTHER -> {}

\* The other responses the server may give to the request of worker w.
Unexpected(w) ==
    (IF op = "members"
     THEN {Response(200, NoHeader, "none", b) :
               b \in PageBodies(OffsetOf(worker[w].job), set)}
     ELSE {Response(200, NoHeader, "none", Garbage)})
    \cup FailureResponses

\* In a bulk run an attempt is answered at once or not before the deadline.
BulkDurations == {0, RequestTimeout}

\* ------------------------------------- specification: a call of SetMembers
DeclaredCounts == {0, MaxExtra, LimitParam, LimitParam + MaxExtra}

InitPool(faults) ==
    /\ variant = "api"
    /\ baseCancelled = FALSE
    /\ opCancelled = FALSE
    /\ cancelCalls = 0
    /\ faultsLeft = faults
    /\ call = [p \in Procs |-> IdleCall]
    /\ mainpc = "start"
    /\ op = "none"
    /\ jobs = "none"
    /\ numJobs = 0
    /\ submitted = 0
    /\ worker = [w \in Workers |-> [state |-> "none", job |-> 0]]
    /\ job = <<>>
    /\ errs = EmptyBag
    /\ membersMap = {}
    /\ scannedIn = EmptyBag
    /\ mux = Unlocked
    /\ lookup = NoLookup
    /\ fetch = NoFetch
    /\ resolve = NoResolve
    /\ run = NoRun
    /\ monitor = "none"
    /\ clean = NoClean
    /\ ret = [members |-> NoRet, scanin |-> NoRet]

\* A call of SetMembers is followed through one fault more than a whole run,
\* so that two page requests can fail in it.
PageFaults == MaxFaults + 1

InitSetMembers ==
    /\ InitPool(PageFaults)
    /\ set \in DeclaredCounts
    /\ dryrun = FALSE

Pool ==
    \E w \in Workers :
        \/ Submit(w)
        \/ Do(w, Expected(w), Unexpected(w) \ Expected(w), BulkDurations)
        \/ JobEnd(w)
        \/ WorkerExit(w)

NextSetMembers ==
    \/ CallSetMembers
    \/ Pool
    \/ CloseJobs
    \/ SetMembersReturn
    \/ Signal

SpecSetMembers == InitSetMembers /\ [][NextSetMembers]_vars

\* The goroutines of the operation keep running: the caller's loop, every
\* worker, and the transport calls, whose timers and deadlines fire.
FairSpecSetMembers ==
    SpecSetMembers /\ WF_vars(CallSetMembers \/ Pool \/ CloseJobs \/ SetMembersReturn)

\* ------------- specification: SetMembers, the closures statement by statement
PoolByStatement ==
    \E w \in Workers :
        \/ Submit(w)
        \/ Do(w, Expected(w), Unexpected(w) \ Expected(w), BulkDurations)
        \/ JobReturns(w)
        \/ JobLock(w)
        \/ JobWrite(w)
        \/ JobUnlock(w)
        \/ WorkerExit(w)

NextMutex ==
    \/ CallSetMembers
    \/ PoolByStatement
    \/ CloseJobs
    \/ SetMembersReturn
    \/ Signal

SpecMutex == InitSetMembers /\ [][NextMutex]_vars

\* ------------------------------------------ specification: a scan-in run
\* The subcommand items-scan-in on a set of at most MaxJobs members.
Init ==
    /\ InitPool(MaxFaults)
    /\ set \in 0..MaxJobs
    /\ dryrun \in BOOLEAN

Next ==
    \/ CallSetMembers
    \/ Pool
    \/ CloseJobs
    \/ SetMembersReturn
    \/ SubcommandReturns
    \/ CallScanIn
    \/ ScanInReturn
    \/ MainExit
    \/ Signal

Spec == Init /\ [][Next]_vars

\* --------------------------------------- specification: SetIDFromName
\* Set names are strings of at most MaxNameLen characters, a letter or a
\* white space; the reply to the search lists at most MaxSets sets.
MaxNameLen == 2
MaxSets == 2
Chars == {" ", "a"}
Names == UNION {[1..n -> Chars] : n \in 0..MaxNameLen}

IsSpace(c) == c = " "

RECURSIVE TrimLeft(_)
TrimLeft(s) == IF s # <<>> /\ IsSpace(Head(s)) THEN TrimLeft(Tail(s)) ELSE s

RECURSIVE TrimRight(_)
TrimRight(s) ==
    IF s # <<>> /\ IsSpace(s[Len(s)]) THEN TrimRight(SubSeq(s, 1, Len(s) - 1))
                                      ELSE s

\* strings.TrimSpace
TrimSpace(s) == TrimRight(TrimLeft(s))

\* The search of the server, q=name~<name>: the candidate contains the name.
NameContains(c, n) ==
    \E i \in 1..(Len(c) + 1) : \E k \in 0..Len(c) :
        i + k - 1 <= Len(c) /\ SubSeq(c, i, i + k - 1) = n

\* strings.TrimSpace(set.Name) == strings.TrimSpace(name)
NameMatches(c, n) == TrimSpace(c) = TrimSpace(n)

\* What c.Do and xml.Unmarshal leave SetIDFromName with: an error of Do, a
\* body that does not parse, or the sets of the reply in their order.
Replies ==
    {[kind |-> k, sets |-> <<>>] : k \in {"error", "malformed"}}
        \cup {[kind |-> "sets",
               sets |-> [i \in DOMAIN f |-> [ID |-> i, Name |-> f[i]]]] :
                 f \in UNION {[1..n -> Names] : n \in 0..MaxSets}}

\* for _, set := range sets.Sets { if ... { return set.ID, nil } }
RECURSIVE FirstMatch(_, _)
FirstMatch(sets, name) ==
    IF sets = <<>> THEN [id |-> NoID, err |-> "notfound"]
    ELSE IF NameMatches(Head(sets).Name, name)
         THEN [id |-> Head(sets).ID, err |-> "nil"]
         ELSE FirstMatch(Tail(sets), name)

InitSetID ==
    /\ variant = "api"
    /\ baseCancelled = FALSE
    /\ opCancelled = FALSE
    /\ cancelCalls = 0
    /\ faultsLeft = 0
    /\ call = [p \in Procs |-> IdleCall]
    /\ mainpc = "setid"
    /\ PoolIdle
    /\ fetch = NoFetch
    /\ resolve = NoResolve
    /\ run = NoRun
    /\ monitor = "none"
    /\ clean = NoClean
    /\ \E n \in Names, r \in Replies :
          lookup = [NoLookup EXCEPT !.pc = "called", !.name = n, !.reply = r]

\* func (c Client) SetIDFromName(ctx, name) (string, error)
SetIDFromName ==
    /\ lookup.pc = "called"
    /\ LET r == lookup.reply
           res == IF r.kind = "error" THEN [id |-> NoID, err |-> "do"]
                  ELSE IF r.kind = "malformed" THEN [id |-> NoID, err |-> "unmarshal"]
                  ELSE FirstMatch(r.sets, lookup.name)
       IN  lookup' = [lookup EXCEPT !.pc = "returned", !.id = res.id, !.err = res.err]
    /\ UNCHANGED <<variant, call, baseCancelled, opCancelled, cancelCalls,
                   faultsLeft, mainpc, op, set, dryrun, fetch, resolve, run, monitor, clean, jobs, numJobs, submitted,
                   worker, job, errs, membersMap, scannedIn, mux, ret>>

NextSetID == SetIDFromName

SpecSetID == InitSetID /\ [][NextSetID]_vars

\* ------------------------- specification: CleanupCallNumberSubfield
\* Call numbers are strings of at most MaxCallLen characters: a digit, a
\* letter, a period, a space or an apostrophe.
MaxCallLen == 4
CallChars == {"1", "a", ".", " ", "'"}
CallNumbers == UNION {[1..n -> CallChars] : n \in 0..MaxCallLen}

\* [0-9]
IsDigit(c) == c = "1"
\* [a-zA-Z]
IsLetter(c) == c = "a"

\* The rest of s from position i on.
From(s, i) == SubSeq(s, i, Len(s))

\* The length of the longest run of the character c at the head of s.
RECURSIVE RunOf(_, _)
RunOf(s, c) == IF s # <<>> /\ Head(s) = c THEN 1 + RunOf(Tail(s), c) ELSE 0

\* regexp ([0-9])([a-zA-Z]) replaced by "$1 $2"
RECURSIVE SpaceDigitLetter(_)
SpaceDigitLetter(s) ==
    IF Len(s) >= 2 /\ IsDigit(s[1]) /\ IsLetter(s[2])
    THEN <<s[1], " ", s[2]>> \o SpaceDigitLetter(From(s, 3))
    ELSE IF s = <<>> THEN s ELSE <<Head(s)>> \o SpaceDigitLetter(Tail(s))

\* regexp ([0-9])\.([a-zA-Z]) replaced by "$1 .$2"
RECURSIVE SpaceDigitPeriodLetter(_)
SpaceDigitPeriodLetter(s) ==
    IF Len(s) >= 3 /\ IsDigit(s[1]) /\ s[2] = "." /\ IsLetter(s[3])
    THEN <<s[1], " ", ".", s[3]>> \o SpaceDigitPeriodLetter(From(s, 4))
    ELSE IF s = <<>> THEN s ELSE <<Head(s)>> \o SpaceDigitPeriodLetter(Tail(s))

\* The rule as the usage text and the comment give it: regexp " \.\.+"
\* replaced by " .".
RECURSIVE ExtraPeriodsAsDocumented(_)
ExtraPeriodsAsDocumented(s) ==
    IF s = <<>> THEN s
    ELSE LET k == RunOf(Tail(s), ".")
         IN  IF Head(s) = " " /\ k >= 2
             THEN <<" ", ".">> \o ExtraPeriodsAsDocumented(From(s, k + 2))
             ELSE <<Head(s)>> \o ExtraPeriodsAsDocumented(Tail(s))

\* regexp " \.\.+'" replaced by " .": the periods must be followed by an
\* apostrophe, which the replacement removes with them.
RECURSIVE ExtraPeriods(_)
ExtraPeriods(s) ==
    IF s = <<>> THEN s
    ELSE LET k == RunOf(Tail(s), ".")
         IN  IF Head(s) = " " /\ k >= 2 /\ Len(s) >= k + 2 /\ s[k + 2] = "'"
             THEN <<" ", ".">> \o ExtraPeriods(From(s, k + 3))
             ELSE <<Head(s)>> \o ExtraPeriods(Tail(s))

\* regexp "\. +([0-9])" replaced by ".$1"
RECURSIVE PeriodSpacesDigit(_)
PeriodSpacesDigit(s) ==
    IF s = <<>> THEN s
    ELSE LET k == RunOf(Tail(s), " ")
         IN  IF Head(s) = "." /\ k >= 1 /\ Len(s) >= k + 2 /\ IsDigit(s[k + 2])
             THEN <<".", s[k + 2]>> \o PeriodSpacesDigit(From(s, k + 3))
             ELSE <<Head(s)>> \o PeriodSpacesDigit(Tail(s))

\* func CleanupCallNumberSubfield(callNum string) string
CleanupCallNumberSubfield(s) ==
    TrimSpace(PeriodSpacesDigit(ExtraPeriods(
        SpaceDigitPeriodLetter(SpaceDigitLetter(s)))))

\* The function with the third rule as documented.
CleanupAsDocumented(s) ==
    TrimSpace(PeriodSpacesDigit(ExtraPeriodsAsDocumented(
        SpaceDigitPeriodLetter(SpaceDigitLetter(s)))))

InitCallNumber ==
    /\ variant = "api"
    /\ baseCancelled = FALSE
    /\ opCancelled = FALSE
    /\ cancelCalls = 0
    /\ faultsLeft = 0
    /\ call = [p \in Procs |-> IdleCall]
    /\ mainpc = "callnumber"
    /\ PoolIdle
    /\ fetch = NoFetch
    /\ resolve = NoResolve
    /\ run = NoRun
    /\ monitor = "none"
    /\ lookup = NoLookup
    /\ \E s \in CallNumbers : clean = [pc |-> "called", arg |-> s, result |-> <<>>]

CallCleanupCallNumberSubfield ==
    /\ clean.pc = "called"
    /\ clean' = [clean EXCEPT !.pc = "returned",
                              !.result = CleanupCallNumberSubfield(clean.arg)]
    /\ UNCHANGED <<variant, call, baseCancelled, opCancelled, cancelCalls,
                   faultsLeft, mainpc, op, set, dryrun, fetch, resolve, run, monitor, lookup, jobs, numJobs,
                   submitted, worker, job, errs, membersMap, scannedIn, mux, ret>>

NextCallNumber == CallCleanupCallNumberSubfield

SpecCallNumber == InitCallNumber /\ [][NextCallNumber]_vars

\* -------------- specification: the channel variant and its budget monitor
\* The answers of the server to the calls that run beside the monitor.
MonitorResponses == {Response(200, h, "none", XMLBody({})) : h \in Headers}

\* The workers each make one call through the request function that
\* MakeRequestFunc built around the channel; the monitor goroutine runs.
InitMonitor ==
    /\ variant = "channel"
    /\ baseCancelled = FALSE
    /\ opCancelled = FALSE
    /\ cancelCalls = 0
    /\ faultsLeft = MaxFaults
    /\ call = [p \in Procs |->
                 IF p \in Workers
                 THEN NewCall(Request("GET", "", "", "test", NoQuery), FALSE)
                 ELSE IdleCall]
    /\ mainpc = "running"
    /\ PoolIdle
    /\ fetch = NoFetch
    /\ resolve = NoResolve
    /\ run = NoRun
    /\ lookup = NoLookup
    /\ clean = NoClean
    /\ monitor = "running"

\* case remAPICalls := <-remAPICalls: the monitor takes the count of call p,
\* whose send returns; at or below the threshold the monitor cancels the
\* base context and returns.
MonitorReceive(p) ==
    /\ monitor = "running"
    /\ call[p].pc = "sending"
    /\ LET r == call[p].resp
           calls == [call EXCEPT ![p] = Return(@, DoResult(variant, @.method, r), r.body)]
       IN  IF Atoi(r.rem).n <= Threshold
           THEN /\ call' = CancelIn(calls, Procs)
                /\ baseCancelled' = AfterCancel(baseCancelled)
                /\ cancelCalls' = cancelCalls + 1
                /\ monitor' = "stopped"
           ELSE /\ call' = calls
                /\ UNCHANGED <<baseCancelled, cancelCalls, monitor>>
    /\ UNCHANGED <<variant, opCancelled, faultsLeft, mainpc, op, set, dryrun, fetch, resolve, run,
                   clean, lookup, jobs, numJobs, submitted, worker, job, errs,
                   membersMap, scannedIn, mux, ret>>

\* case <-ctx.Done(): return
MonitorCtxDone ==
    /\ monitor = "running"
    /\ baseCancelled
    /\ monitor' = "stopped"
    /\ UNCHANGED <<variant, call, baseCancelled, opCancelled, cancelCalls,
                   faultsLeft, mainpc, op, set, dryrun, fetch, resolve, run, clean, lookup, jobs,
                   numJobs, submitted, worker, job, errs, membersMap, scannedIn,
                   mux, ret>>

NextMonitor ==
    \/ \E w \in Workers : Do(w, MonitorResponses, {}, BulkDurations)
    \/ \E w \in Workers : MonitorReceive(w)
    \/ MonitorCtxDone
    \/ Signal

SpecMonitor == InitMonitor /\ [][NextMonitor]_vars

\* --------------------------------------- specification: GetMemberIDs
\* numMembers as GetSetSize hands it over: never 0.
MemberCounts == {MaxExtra, LimitParam, LimitParam + MaxExtra, 2 * LimitParam + MaxExtra}

\* GetMemberIDs up to wg.Wait(): the three channels are made with room for
\* one element per offset, offsetsChan is loaded and closed, the workers are
\* started.  The context may already be cancelled.
InitFetch ==
    /\ variant = "channel"
    /\ baseCancelled \in BOOLEAN
    /\ opCancelled = FALSE
    /\ cancelCalls = 0
    /\ faultsLeft = MaxFaults
    /\ call = [p \in Procs |-> IdleCall]
    /\ mainpc = "members"
    /\ PoolIdle
    /\ resolve = NoResolve
    /\ run = NoRun
    /\ monitor = "none"
    /\ clean = NoClean
    /\ lookup = NoLookup
    /\ \E n \in MemberCounts :
          fetch = [NoFetch EXCEPT !.pc = "wait", !.offsets = Offsets(n),
                                  !.pending = Offsets(n),
                                  !.at = [w \in Workers |-> "select"]]

FetchUnchanged ==
    UNCHANGED <<variant, call, baseCancelled, opCancelled, cancelCalls,
                faultsLeft, mainpc, op, set, dryrun, resolve, run, monitor,
                clean, lookup, jobs, numJobs, submitted, worker, job, errs,
                membersMap, scannedIn, mux, ret>>

\* case <-ctx.Done(): the worker goes on to errorsChan <- ctx.Err().
FetchCtxDone(w) ==
    /\ fetch.at[w] = "select"
    /\ baseCancelled
    /\ fetch' = [fetch EXCEPT !.at[w] = "sendErr"]
    /\ FetchUnchanged

\* case offset, ok := <-offsetsChan: the worker returns when the channel is
\* closed and empty, and calls getMemberIDForOffset otherwise.
FetchOffset(w) ==
    /\ fetch.at[w] = "select"
    /\ IF fetch.pending = 0
       THEN fetch' = [fetch EXCEPT !.at[w] = "done"]
       ELSE fetch' = [fetch EXCEPT !.at[w] = "fetching", !.pending = @ - 1]
    /\ FetchUnchanged

\* getMemberIDForOffset returns the IDs of the page, or an error; with a
\* cancelled context its request returns an error.
FetchPage(w) ==
    /\ fetch.at[w] = "fetching"
    /\ \/ ~baseCancelled /\ fetch' = [fetch EXCEPT !.at[w] = "sendIDs"]
       \/ fetch' = [fetch EXCEPT !.at[w] = "sendErr"]
    /\ FetchUnchanged

\* A channel with room for n elements that holds k has room for a send.
HasRoom(k, n) == k < n

\* memberIDsChan <- memberIDs, then the next turn of the loop.
FetchSendIDs(w) ==
    /\ fetch.at[w] = "sendIDs"
    /\ HasRoom(fetch.ids, fetch.offsets)
    /\ fetch' = [fetch EXCEPT !.at[w] = "select", !.ids = @ + 1]
    /\ FetchUnchanged

\* errorsChan <- err, return; the deferred wg.Done().
FetchSendErr(w) ==
    /\ fetch.at[w] = "sendErr"
    /\ HasRoom(fetch.errors, fetch.offsets)
    /\ fetch' = [fetch EXCEPT !.at[w] = "done", !.errors = @ + 1]
    /\ FetchUnchanged

\* wg.Wait() returns when every worker has returned; the channels are
\* closed, and the first error, if there is one, is returned.
FetchReturn ==
    /\ fetch.pc = "wait"
    /\ \A w \in Workers : fetch.at[w] = "done"
    /\ fetch' = [fetch EXCEPT !.pc = "returned",
                              !.err = IF fetch.errors > 0 THEN "error" ELSE "nil"]
    /\ FetchUnchanged

NextFetch ==
    \/ \E w \in Workers :
          \/ FetchCtxDone(w)
          \/ FetchOffset(w)
          \/ FetchPage(w)
          \/ FetchSendIDs(w)
          \/ FetchSendErr(w)
    \/ FetchReturn
    \/ Signal

SpecFetch == InitFetch /\ [][NextFetch]_vars

\* ------------------------------- specification: SetFromNameOrID by a Run
\* The call sites of SetFromNameOrID: items-cancel-requests, items-requests
\* (both of part_008) and items-scan-in (part_009) with their later forms,
\* and the two forms of the call-number clean-up.
CallSites ==
    {"part_008:52", "part_008:169", "part_009:56", "cleanupcallnumbers.go:54",
     "scanin.go:57", "requests.go:37", "part_007:53"}

\* The call sites that are written c.SetFromNameOrID(ctx, *ID, *name).
IDFirst == {"part_008:52", "part_008:169", "part_009:56", "cleanupcallnumbers.go:54"}

\* The parameters (name, ID) of SetFromNameOrID(ctx, name, ID) at a call
\* site, the flags being -setname and -setid: the first argument of the call
\* is the parameter name, the second the parameter ID.
Arguments(site, setname, setid) ==
    IF site \in IDFirst THEN [name |-> setid, ID |-> setname]
                        ELSE [name |-> setname, ID |-> setid]

\* The value of a flag that was given.
Given == Names \ {<<>>}

\* The set IDs the name search of the server may give back.
FoundIDs == {<<"a">>, <<"a", "a">>}

\* A Run is about to resolve its set; ValidateSetNameAndSetIDFlags has let
\* through exactly one of -setname and -setid.
InitResolve ==
    /\ variant = "api"
    /\ baseCancelled = FALSE
    /\ opCancelled = FALSE
    /\ cancelCalls = 0
    /\ faultsLeft = 0
    /\ call = [p \in Procs |-> IdleCall]
    /\ mainpc = "resolve"
    /\ PoolIdle
    /\ fetch = NoFetch
    /\ run = NoRun
    /\ monitor = "none"
    /\ clean = NoClean
    /\ lookup = NoLookup
    /\ \E site \in CallSites, v \in Given, byName \in BOOLEAN :
          resolve = [NoResolve EXCEPT !.pc = "run", !.site = site,
                                      !.setname = IF byName THEN v ELSE <<>>,
                                      !.setid = IF byName THEN <<>> ELSE v]

\* set, err := c.SetFromNameOrID(ctx, ..., ...): the call binds its
\* parameters.
ResolveCall ==
    /\ resolve.pc = "run"
    /\ LET a == Arguments(resolve.site, resolve.setname, resolve.setid)
       IN  resolve' = [resolve EXCEPT !.pc = "entered", !.name = a.name, !.ID = a.ID]
    /\ UNCHANGED <<variant, call, baseCancelled, opCancelled, cancelCalls,
                   faultsLeft, mainpc, op, set, dryrun, fetch, run, monitor, clean,
                   lookup, jobs, numJobs, submitted, worker, job, errs,
                   membersMap, scannedIn, mux, ret>>

\* if name != "" { ID, err = c.SetIDFromName(ctx, name); if err != nil
\* { return } }: the search finds a set, whose ID replaces ID, or fails.
ResolveName ==
    /\ resolve.pc = "entered"
    /\ IF resolve.name # <<>>
       THEN LET r == [resolve EXCEPT
                        !.calls = Append(@, [fn |-> "SetIDFromName", arg |-> resolve.name])]
            IN  \/ \E id \in FoundIDs :
                      resolve' = [r EXCEPT !.pc = "byid", !.ID = id]
                \/ resolve' = [r EXCEPT !.pc = "returned", !.err = "name"]
       ELSE resolve' = [resolve EXCEPT !.pc = "byid"]
    /\ UNCHANGED <<variant, call, baseCancelled, opCancelled, cancelCalls,
                   faultsLeft, mainpc, op, set, dryrun, fetch, run, monitor, clean,
                   lookup, jobs, numJobs, submitted, worker, job, errs,
                   membersMap, scannedIn, mux, ret>>

\* set, err = c.SetFromID(ctx, ID): the set, or an error.
ResolveID ==
    /\ resolve.pc = "byid"
    /\ \E e \in {"nil", "id"} :
          resolve' = [resolve EXCEPT
                        !.pc = "returned", !.err = e,
                        !.calls = Append(@, [fn |-> "SetFromID", arg |-> resolve.ID])]
    /\ UNCHANGED <<variant, call, baseCancelled, opCancelled, cancelCalls,
                   faultsLeft, mainpc, op, set, dryrun, fetch, run, monitor, clean,
                   lookup, jobs, numJobs, submitted, worker, job, errs,
                   membersMap, scannedIn, mux, ret>>

NextResolve ==
    \/ ResolveCall
    \/ ResolveName
    \/ ResolveID

SpecResolve == InitResolve /\ [][NextResolve]_vars

\* --------------------------------------- specification: a subcommand run
\* The bulk operations Run calls after SetMembers, in order: items-scan-in,
\* items-requests, items-cancel-requests, holdings-clean-up-call-numbers.
Operations(sub) ==
    CASE sub = "scanin" -> <<"scanin">>
      [] sub = "requests" -> <<"requests">>
      [] sub = "cancel" -> <<"requests", "cancel">>
      [] sub = "cleanup" -> <<"holdinglists", "holdings", "update">>
      [] OTHER -> <<>>

\* A filter that looks at the type only.
MatchTypeOnly(u, rtype, subType) == rtype = "" \/ rtype = u.type

\* UserRequest.MatchTypeSubType: an empty filter field matches anything.
MatchTypeSubType(u, rtype, subType) ==
    /\ rtype = "" \/ rtype = u.type
    /\ subType = "" \/ subType = u.subtype

\* for _, request := range requests { if request.MatchTypeSubType(...) {...} }
Matching(r) == {u \in r.requests : MatchTypeSubType(u, r.rtype, r.subtype)}

\* CleanUpCallNumbers: the list it returns, and the list it was given after
\* the call.  The loop variable is a copy of the Holding, but its Datafield
\* and Subfield slices share their arrays with the element of the list, so
\* the assignment to holding.Record.Datafield[fi].Subfield[si].Text writes
\* into the list the caller handed over.
CleanUpCallNumbers(holdings) ==
    LET new(h) == [h EXCEPT !.call = CleanupCallNumberSubfield(@)]
    IN  [cleaned |-> {new(h) : h \in {x \in holdings : new(x) # x}},
         holdings |-> {new(h) : h \in holdings}]

\* A run that only looks at the errors of SetMembers.
MembersErrs == ret.members.errs

\* The errors the operation that returned last handed back.
LastErrs == IF run.step = 0 THEN ret.members.errs ELSE errs

\* A run that ignores -dryrun.
NeverSkips == FALSE

\* if !*dryrun { ... }: a dry run leaves out the operation that changes Alma.
Skips ==
    dryrun /\ run.sub # "requests" /\ run.step + 1 = Len(Operations(run.sub))

\* Run goes on to its next bulk operation: there is one, the last one
\* returned no error, and it is not left out.
Continues ==
    /\ run.step < Len(Operations(run.sub))
    /\ LastErrs = EmptyBag
    /\ ~Skips

\* The run once the holdings are fetched without error: cleaned :=
\* CleanUpCallNumbers(holdings).
Cleaning(r) ==
    IF r.sub = "cleanup" /\ r.step = 2 /\ LastErrs = EmptyBag
    THEN [r EXCEPT !.cleaned = CleanUpCallNumbers(r.holdings).cleaned,
                   !.holdings = CleanUpCallNumbers(r.holdings).holdings]
    ELSE r

\* The list the operation o of the run r works through.
InputOf(o, r) ==
    CASE o = "cancel" -> SeqOf({u.id : u \in Matching(r)})
      [] o = "holdings" -> SeqOf(r.listed)
      [] o = "update" -> SeqOf({h.id : h \in r.cleaned})
      [] OTHER -> ret.members.out

\* The methods of the requests the jobs of the last operation sent.
MethodsSent == {q.method : q \in UNION {job[j].sent : j \in DOMAIN job}}

\* The rows Run writes under the CSV header.  The scan-in loop ranges over
\* the items scanned in; the cancel-requests loop over the requests, looking
\* up request.Member.Link in matchingMap and cancelledMap; the clean-up loop
\* over the holdings, looking up the link in cleanedMap and updatedMap.
Rows(r) ==
    CASE r.sub = "scanin" ->
           {[item |-> m, scanned |-> m \in r.changed] : m \in r.changed}
      [] r.sub = "requests" ->
           {[link |-> u.item, id |-> u.id, type |-> u.type, subtype |-> u.subtype] :
               u \in r.requests}
      [] r.sub = "cancel" ->
           {[link |-> u.item, id |-> u.id, type |-> u.type, subtype |-> u.subtype,
             matched |-> u.item \in {m.item : m \in Matching(r)},
             cancelled |-> u.item \in {c.item : c \in {x \in r.requests : x.id \in r.changed}}] :
               u \in r.requests}
      [] r.sub = "cleanup" ->
           {[link |-> h.id, original |-> h.call,
             updated |-> IF \E c \in r.cleaned : c.id = h.id
                         THEN (CHOOSE c \in r.cleaned : c.id = h.id).call ELSE <<>>,
             changed |-> h.id \in r.changed] : h \in r.holdings}
      [] OTHER -> {}

\* The flags of a run: the subcommand, -type and -subtype of cancel-requests,
\* -dryrun (items-requests has none).
Runs ==
    {[NoRun EXCEPT !.sub = s, !.rtype = t, !.subtype = u] :
        s \in {"scanin", "requests", "cleanup"}, t \in {""}, u \in {""}}
    \cup {[NoRun EXCEPT !.sub = "cancel", !.rtype = t, !.subtype = u] :
             t \in {"", "HOLD"}, u \in {"", "PATRON_PHYSICAL"}}

InitRun ==
    /\ variant = "api"
    /\ baseCancelled = FALSE
    /\ opCancelled = FALSE
    /\ cancelCalls = 0
    /\ faultsLeft = MaxFaults
    /\ call = [p \in Procs |-> IdleCall]
    /\ mainpc = "main"
    /\ op = "none"
    /\ jobs = "none"
    /\ numJobs = 0
    /\ submitted = 0
    /\ worker = [w \in Workers |-> [state |-> "none", job |-> 0]]
    /\ job = <<>>
    /\ errs = EmptyBag
    /\ membersMap = {}
    /\ scannedIn = EmptyBag
    /\ mux = Unlocked
    /\ ret = [members |-> NoRet, scanin |-> NoRet]
    /\ lookup = NoLookup
    /\ monitor = "none"
    /\ resolve = NoResolve
    /\ fetch = NoFetch
    /\ clean = NoClean
    /\ run \in Runs
    /\ set \in 0..MaxExtra
    /\ dryrun \in IF run.sub = "requests" THEN {FALSE} ELSE BOOLEAN

\* main up to the access check: without an API key log.Fatal ends the
\* process, as does os.Exit(1) when the flags of the subcommand are not
\* valid (set name XOR set ID; cancel-requests needs a type or a subtype).
\* With valid flags main derives the base context and starts the goroutine
\* that waits for a signal or for ctx.Done().
MainFlags ==
    /\ mainpc = "main"
    /\ \E key \in BOOLEAN, nameXorID \in BOOLEAN :
          IF key /\ nameXorID
                 /\ (run.sub = "cancel" => run.rtype # "" \/ run.subtype # "")
          THEN mainpc' = "check" /\ monitor' = "running" /\ UNCHANGED run
          ELSE /\ mainpc' = "exited"
               /\ run' = [run EXCEPT !.exit = 1,
                                     !.failedAt = IF key THEN "flags" ELSE "key"]
               /\ UNCHANGED monitor
    /\ UNCHANGED <<variant, call, baseCancelled, opCancelled, cancelCalls,
                   faultsLeft, op, set, dryrun, fetch, resolve, clean, lookup, jobs,
                   numJobs, submitted, worker, job, errs, membersMap, scannedIn,
                   mux, ret>>

\* c.CheckAPIandKey(ctx, sub.ReadAccess, sub.WriteAccess): a GET and a POST on
\* the test endpoints; on an error main cancels, waits and exits with 1.
CheckAPIandKey ==
    /\ mainpc = "check"
    /\ \E ok \in BOOLEAN :
          /\ ok => ~baseCancelled
          /\ IF ok THEN mainpc' = "resolve" /\ UNCHANGED run
                   ELSE /\ mainpc' = "cleanup"
                        /\ run' = [run EXCEPT !.failed = TRUE, !.failedAt = "access"]
    /\ UNCHANGED <<variant, call, baseCancelled, opCancelled, cancelCalls,
                   faultsLeft, op, set, dryrun, fetch, resolve, monitor, clean, lookup, jobs,
                   numJobs, submitted, worker, job, errs, membersMap, scannedIn,
                   mux, ret>>

\* A Run that goes on without looking at the error of SetFromNameOrID.
TypeOnly(found, rightType) == rightType

\* if err != nil { return err }; if set.Type != ... { return fmt.Errorf(...) }
Usable(found, rightType) == found /\ rightType

\* Run up to SetMembers: SetFromNameOrID returns an error (no set has the
\* name, the ID is unknown, the context is cancelled), or the set is not of
\* the type the subcommand works on, and Run returns the error.
SetFromNameOrID ==
    /\ mainpc = "resolve"
    /\ \E found \in BOOLEAN, rightType \in BOOLEAN :
          /\ found => ~baseCancelled
          /\ mainpc' = IF Usable(found, rightType) THEN "start" ELSE "cleanup"
          /\ run' = [run EXCEPT !.failed = ~Usable(found, rightType),
                                !.failedAt = IF ~found THEN "set"
                                             ELSE IF ~rightType THEN "type"
                                             ELSE "none"]
    /\ UNCHANGED <<variant, call, baseCancelled, opCancelled, cancelCalls,
                   faultsLeft, op, set, dryrun, fetch, resolve, monitor, clean, lookup, jobs,
                   numJobs, submitted, worker, job, errs, membersMap, scannedIn,
                   mux, ret>>

\* A bulk operation of the run up to the start of its loop.
CallOperation ==
    /\ mainpc = "fetched"
    /\ Continues
    /\ LET o == Operations(run.sub)[run.step + 1]
           r == Cleaning(run)
       IN  /\ run' = [r EXCEPT !.input = InputOf(o, r),
                               !.methods = @ \cup MethodsSent]
           /\ StartConcurrent(o, Len(InputOf(o, r)))
    /\ scannedIn' = EmptyBag
    /\ UNCHANGED <<variant, call, baseCancelled, cancelCalls, faultsLeft, set,
                   dryrun, fetch, resolve, monitor, clean, lookup, membersMap, ret>>

\* The bulk operation after StopConcurrent: it returns its output list (the
\* requests with their Member, the holding list members, the holdings, or
\* the items, requests or holdings changed) and errs; the deferred cancel().
OperationReturn ==
    /\ WaitReturns
    /\ op \notin {"none", "members"}
    /\ LET done == BagToSet(scannedIn)
       IN  run' = [run EXCEPT
                     !.step = @ + 1,
                     !.requests =
                        IF op = "requests"
                        THEN {[id |-> u.id, type |-> u.type, subtype |-> u.subtype,
                               item |-> run.input[j]] :
                                 <<u, j>> \in {x \in RequestsInAlma \X done :
                                                  x[1].id \in job[x[2]].ids}}
                        ELSE @,
                     !.listed =
                        IF op = "holdinglists"
                        THEN UNION {job[j].ids : j \in done} ELSE @,
                     !.holdings =
                        IF op = "holdings"
                        THEN {h \in HoldingsInAlma :
                                 \E j \in done : h.id \in job[j].ids}
                        ELSE @,
                     !.changed =
                        IF op \in {"scanin", "cancel", "update"}
                        THEN {run.input[j] : j \in done} ELSE @]
    /\ opCancelled' = AfterCancel(opCancelled)
    /\ cancelCalls' = cancelCalls + 1
    /\ op' = "none"
    /\ mainpc' = "fetched"
    /\ UNCHANGED <<variant, call, baseCancelled, faultsLeft, set, dryrun, fetch, resolve, monitor,
                   clean, lookup, jobs, numJobs, submitted, worker, job, errs,
                   membersMap, scannedIn, mux, ret>>

\* Run returns: with the error of an operation whose output it needs, or
\* after it has written the report, with an error if the last operation
\* handed back any.
RunReturns ==
    /\ mainpc = "fetched"
    /\ ~Continues
    /\ LET r == [Cleaning(run) EXCEPT !.methods = @ \cup MethodsSent]
       IN  run' = IF run.step < Len(Operations(run.sub)) /\ LastErrs # EmptyBag
                  THEN [r EXCEPT !.failed = TRUE]
                  ELSE [r EXCEPT !.written = TRUE, !.report = Rows(r),
                                 !.failed = LastErrs # EmptyBag]
    /\ mainpc' = "cleanup"
    /\ UNCHANGED <<variant, call, baseCancelled, opCancelled, cancelCalls,
                   faultsLeft, op, set, dryrun, fetch, resolve, monitor, clean, lookup, jobs,
                   numJobs, submitted, worker, job, errs, membersMap, scannedIn,
                   mux, ret>>

\* main after the access check failed or sub.Run returned: cancel().
MainCancels ==
    /\ mainpc = "cleanup"
    /\ baseCancelled' = AfterCancel(baseCancelled)
    /\ cancelCalls' = cancelCalls + 1
    /\ mainpc' = "waiting"
    /\ UNCHANGED <<variant, call, opCancelled, faultsLeft, op, set, dryrun, fetch, resolve, run,
                   monitor, clean, lookup, jobs, numJobs, submitted, worker, job,
                   errs, membersMap, scannedIn, mux, ret>>

\* wg.Wait() returns once the goroutine main started has returned; then
\* os.Exit(1) on an error, os.Exit(0) otherwise.
MainReturns ==
    /\ mainpc = "waiting"
    /\ monitor = "stopped"
    /\ run' = [run EXCEPT !.exit = IF run.failed THEN 1 ELSE 0]
    /\ mainpc' = "exited"
    /\ UNCHANGED <<variant, call, baseCancelled, opCancelled, cancelCalls,
                   faultsLeft, op, set, dryrun, fetch, resolve, monitor, clean, lookup, jobs,
                   numJobs, submitted, worker, job, errs, membersMap, scannedIn,
                   mux, ret>>

NextRun ==
    \/ MainFlags
    \/ CheckAPIandKey
    \/ SetFromNameOrID
    \/ CallSetMembers
    \/ Pool
    \/ CloseJobs
    \/ SetMembersReturn
    \/ CallOperation
    \/ OperationReturn
    \/ RunReturns
    \/ MainCancels
    \/ MonitorCtxDone
    \/ MainReturns
    \/ Signal

SpecRun == InitRun /\ [][NextRun]_vars

\* ================================================================ claims
\* The member IDs the page jobs of SetMembers fetched.
Gathered == UNION {job[j].ids : j \in DOMAIN job}
\* The elements of a list.
Range(f) == {f[i] : i \in DOMAIN f}
\* How many entries of an error list belong to job j.
ErrorsOf(bag, j) ==
    LET E == {e \in BagToSet(bag) : e.job = j}
    IN  IF E = {} THEN 0 ELSE BagCardinality([e \in E |-> bag[e]])
\* A job of the operation has ended with the threshold error.
ThresholdSeen == \E j \in DOMAIN job : job[j].err = "threshold"

\* C1: SetMembers returns a member list only when the number of distinct
\* member IDs gathered over all pages equals set.NumberOfMembers, and the list
\* then holds each gathered ID exactly once; otherwise it returns no members
\* and its error list contains the count-mismatch error naming the found and
\* the expected count, also when every page request succeeded.
C1_CountCheck ==
    ret.members.done =>
        LET found == Cardinality(Gathered)
            out == ret.members.out
        IN  IF found = set
            THEN /\ Len(out) = found
                 /\ Range(out) = Gathered
                 /\ ret.members.errs = errs
            ELSE /\ out = <<>>
                 /\ BagIn(Mismatch(found, set), ret.members.errs)

\* Both pages of a set were fetched without an error, and SetMembers
\* returned no members and the count-mismatch error.
C1_Witness ==
    /\ ret.members.done
    /\ numJobs = 2
    /\ \A j \in DOMAIN job : job[j].err = "nil"
    /\ ret.members.out = <<>>
    /\ \E found \in 0..(2 * LimitParam) :
          /\ found # set
          /\ ret.members.errs = SetToBag({Mismatch(found, set)})

\* C2: every job of a batch of N jobs submitted to the worker pool is
\* executed exactly once by exactly one worker, for any N and any
\* interleaving of the workers: no job is handed out twice, no two workers
\* run the same job, and when the operation returns every job has run once
\* and left exactly one entry, a result or an error.
C2_EachJobOnce ==
    /\ \A j \in DOMAIN job : job[j].runs <= 1
    /\ \A v, w \in Workers :
          (v # w /\ worker[v].state = "running" /\ worker[w].state = "running")
              => worker[v].job # worker[w].job
    /\ mainpc = "fetched" =>
          /\ Len(job) = Offsets(set)
          /\ \A j \in DOMAIN job : job[j].runs = 1 /\ job[j].err # "none"
    /\ ret.scanin.done =>
          /\ Len(job) = Len(ret.members.out)
          /\ \A j \in DOMAIN job :
                /\ job[j].runs = 1
                /\ job[j].err # "none"
                /\ CopiesIn(j, ret.scanin.out) + ErrorsOf(ret.scanin.errs, j) = 1

\* A batch of more jobs than workers, no cancellation: every job scanned in.
C2_Witness ==
    /\ ret.scanin.done
    /\ ~baseCancelled
    /\ Len(job) = MaxJobs
    /\ MaxJobs > NumWorkers
    /\ \A j \in DOMAIN job : job[j].runs = 1 /\ CopiesIn(j, ret.scanin.out) = 1
    /\ ret.scanin.errs = EmptyBag

\* C3: in a bulk operation of the api package, every job submitted after a
\* job has invoked cancel for a remaining-call count at or below the threshold
\* makes no HTTP attempt and ends with the error context.Canceled.
C3_LateJobsCancelled ==
    /\ \A w \in Workers :
          (worker[w].state = "running" /\ job[worker[w].job].late) =>
              /\ call[w].attempts = 0
              /\ call[w].err \in {"none", "canceled"}
    /\ \A j \in DOMAIN job :
          (job[j].late /\ job[j].err # "none") =>
              (job[j].err = "canceled" /\ job[j].attempts = 0)

\* A scan-in job hit the threshold; a job submitted after its cancel
\* ended cancelled without an attempt.
C3_Witness ==
    /\ op = "scanin"
    /\ ~baseCancelled
    /\ ThresholdSeen
    /\ \E j \in DOMAIN job :
          job[j].late /\ job[j].err = "canceled" /\ job[j].attempts = 0

\* C4 as stated: when a job of a bulk operation has received the threshold
\* error, the run's top-level context is cancelled.
C4_Original == ThresholdSeen => baseCancelled

\* C4 amended: when a job of a bulk operation of the api package receives the
\* threshold error, the context StartConcurrent derived for that operation is
\* cancelled, not the run's top-level context: every transport call of the
\* operation in progress or begun after that point observes a cancelled
\* context, the job's cancel leaves the top-level context as it is, and the
\* run starts no further operation.
C4_OperationCancelled ==
    /\ [](ThresholdSeen =>
            /\ opCancelled
            /\ \A w \in Workers :
                  call[w].pc \in {"select", "inflight"} => call[w].ctxErr # "none")
    /\ [][(~ThresholdSeen /\ ThresholdSeen') => baseCancelled' = baseCancelled]_vars
    /\ [][ThresholdSeen => op' \in {op, "none"}]_vars

\* A scan-in job hit the threshold: the operation's context is cancelled, the
\* top-level context is not, and a later job has found its context cancelled.
C4_Witness ==
    /\ op = "scanin"
    /\ ThresholdSeen
    /\ opCancelled
    /\ ~baseCancelled
    /\ \E w \in Workers : call[w].pc = "returned" /\ call[w].entered

\* The call of the direct caller in SpecDo.
TheCall == call[Main]
Returned(c) == c.pc = "returned"
\* Do received a response and read and closed its body.
GotResponse(c) == c.resp # NoResp /\ c.resp.fault = "none"

\* C5: api.Client.Do returns a *ThresholdReachedError if and only if the
\* response it received (body read and closed) carries an
\* X-Exl-Api-Remaining header that is an integer less than or equal to
\* Client.Threshold, equality included; no other failure has that type.
C5_ThresholdErrorIffAtOrBelow ==
    (variant = "api" /\ Returned(TheCall)) =>
        /\ TheCall.err = "threshold" =>
              /\ GotResponse(TheCall)
              /\ TheCall.resp.rem.kind = "int"
              /\ TheCall.resp.rem.n <= Threshold
        /\ (GotResponse(TheCall) /\ TheCall.resp.rem.kind = "int"
                /\ TheCall.resp.rem.n <= Threshold) => TheCall.err = "threshold"

\* Do returned the threshold error for a remaining-call count equal to the threshold.
C5_Witness ==
    /\ variant = "api"
    /\ Returned(TheCall)
    /\ TheCall.resp.rem = IntHeader(Threshold)
    /\ TheCall.resp.status = 200
    /\ TheCall.err = "threshold"

\* C6 as stated: for a response with a success status whose remaining-call
\* count is at or below the threshold, the transport call returns the body
\* without an error and invokes the cancellation function.
C6_Original ==
    (Returned(TheCall) /\ GotResponse(TheCall)
        /\ ThresholdReached(TheCall.resp.rem)
        /\ ~StatusFails(TheCall.method, TheCall.resp.status)) =>
            /\ TheCall.err = "nil"
            /\ TheCall.body = TheCall.resp.body
            /\ TheCall.invoked

\* C6 amended: for such a response requestWithBackoff (package main) returns
\* the body without an error and invokes the base cancel function, while
\* api.Client.Do returns the body together with a *ThresholdReachedError and
\* invokes no cancellation function itself.
C6_ThresholdCallOutcome ==
    (Returned(TheCall) /\ GotResponse(TheCall)
        /\ ThresholdReached(TheCall.resp.rem)
        /\ ~StatusFails(TheCall.method, TheCall.resp.status)) =>
            /\ TheCall.body = TheCall.resp.body
            /\ variant = "legacy" =>
                  (TheCall.err = "nil" /\ TheCall.invoked /\ baseCancelled
                      /\ cancelCalls >= 1)
            /\ variant = "api" =>
                  (TheCall.err = "threshold" /\ ~TheCall.invoked)

\* requestWithBackoff returned success and cancelled the base context.
C6_Witness ==
    /\ variant = "legacy"
    /\ Returned(TheCall)
    /\ TheCall.resp.rem = IntHeader(Threshold)
    /\ TheCall.err = "nil"
    /\ TheCall.invoked
    /\ baseCancelled

\* C7: when the response Do received (body read and closed) carries no
\* remaining-call count at or below the threshold, Do returns a nil error if
\* and only if the method is DELETE and the status 204, or the method is not
\* DELETE and the status 200; every response ends the call at once, so no
\* status is retried.
C7_StatusConvention ==
    variant = "api" =>
        /\ TheCall.resp # NoResp =>
              (Returned(TheCall) /\ TheCall.attempts = TheCall.fails + 1)
        /\ (Returned(TheCall) /\ GotResponse(TheCall)
                /\ ~(TheCall.resp.rem.kind = "int" /\ TheCall.resp.rem.n <= Threshold)) =>
              /\ TheCall.err \in {"nil", "status"}
              /\ TheCall.err = "nil" <=>
                    \/ (TheCall.method = "DELETE" /\ TheCall.resp.status = 204)
                    \/ (TheCall.method # "DELETE" /\ TheCall.resp.status = 200)

\* A DELETE answered with 200 ended with the status error.
C7_Witness ==
    /\ variant = "api"
    /\ Returned(TheCall)
    /\ TheCall.method = "DELETE"
    /\ GotResponse(TheCall)
    /\ TheCall.resp.status = 200
    /\ TheCall.resp.rem = NoHeader
    /\ TheCall.err = "status"

\* C8: when the HTTP client fails K times at connection level and then
\* delivers a response within the window, Do has made exactly K + 1 attempts
\* and returns after the last; attempt i was preceded by a pause of i - 1
\* seconds.
C8_LinearBackoff ==
    variant = "api" =>
        /\ Len(TheCall.waits) = TheCall.attempts
        /\ \A i \in 1..Len(TheCall.waits) : TheCall.waits[i] = i - 1
        /\ TheCall.resp # NoResp =>
              /\ Returned(TheCall)
              /\ TheCall.attempts = TheCall.fails + 1
              /\ WindowOpen(TheCall.elapsed)

\* Three connection failures, then a response: four attempts.
C8_Witness ==
    /\ variant = "api"
    /\ Returned(TheCall)
    /\ TheCall.fails = 3
    /\ TheCall.err = "nil"
    /\ TheCall.waits = <<0, 1, 2, 3>>

\* C9: Do never retries forever.  A call that never received a response ends
\* with the error of its context only: the cancellation of the caller, or the
\* deadline once the window shared by all attempts has closed; and every call
\* returns.
C9_DoReturns ==
    /\ [](variant = "api" =>
            /\ (TheCall.pc = "select" /\ TheCall.ctxErr = "none") => TheCall.err = "none"
            /\ (Returned(TheCall) /\ TheCall.resp = NoResp) =>
                  /\ TheCall.err \in {"canceled", "deadline"}
                  /\ TheCall.err = "deadline" => ~WindowOpen(TheCall.elapsed))
    /\ <>Returned(TheCall)

\* Connection failures only, until the window closed.
C9_Witness ==
    /\ variant = "api"
    /\ Returned(TheCall)
    /\ TheCall.err = "deadline"
    /\ TheCall.fails >= 2
    /\ TheCall.attempts = TheCall.fails

\* C10: with a context that is already cancelled Do makes no HTTP attempt and
\* returns an error matching context.Canceled; once the context of a call is
\* cancelled or timed out, during a pause or an attempt, Do makes no further
\* attempt and returns that error.
C10_CancelledContext ==
    /\ [](variant = "api" =>
            /\ (Returned(TheCall) /\ TheCall.entered) =>
                  (TheCall.attempts = 0 /\ TheCall.err = "canceled")
            /\ (Returned(TheCall) /\ TheCall.ctxErr # "none") =>
                  TheCall.err = TheCall.ctxErr)
    /\ [][(variant = "api" /\ TheCall.ctxErr # "none") =>
            /\ call'[Main].attempts = TheCall.attempts
            /\ call'[Main].ctxErr = TheCall.ctxErr]_vars

\* The context was cancelled after a failed attempt; Do returned Canceled.
C10_Witness ==
    /\ variant = "api"
    /\ Returned(TheCall)
    /\ ~TheCall.entered
    /\ TheCall.fails >= 1
    /\ TheCall.err = "canceled"

\* The caller is past StopConcurrent.
Stopped == mainpc \in {"fetched", "cleanup", "exited"}

\* C11: StopConcurrent returns only after every submitted job has run to
\* completion and every worker has exited; after it returns no job is running,
\* no entry is added to the result or error accumulators, and what the
\* operation returned stays as it is.
C11_StopConcurrentWaits ==
    /\ [](Stopped =>
            /\ \A w \in Workers : worker[w].state = "exited"
            /\ submitted = numJobs
            /\ \A j \in DOMAIN job : job[j].runs = 1 /\ job[j].err # "none")
    /\ [][(Stopped /\ Stopped') =>
            /\ errs' = errs
            /\ scannedIn' = scannedIn
            /\ membersMap' = membersMap]_vars
    /\ [][/\ ret.members.done => ret'.members = ret.members
          /\ ret.scanin.done => ret'.scanin = ret.scanin]_vars

\* The scan of MaxJobs members is over: every worker has exited and every job
\* has left its entry.
C11_Witness ==
    /\ ret.scanin.done
    /\ Len(job) = MaxJobs
    /\ \A w \in Workers : worker[w].state = "exited"
    /\ BagCardinality(ret.scanin.out) + BagCardinality(ret.scanin.errs) = MaxJobs

\* The workers inside the critical section of mutex a.
Writers(a) ==
    {w \in Workers : /\ worker[w].state \in {"writing", "unlocking"}
                     /\ MutexOf(job[worker[w].job].err) = a}

\* C12: at any moment at most one worker is writing to a given accumulator:
\* every write to the error list happens while the writer holds the errors
\* mutex and every write to the result collection while it holds the output
\* mutex, and the caller reads both only after all workers have finished.
C12_OneWriterPerAccumulator ==
    /\ [](\A a \in {"em", "om"} :
            /\ Cardinality(Writers(a)) <= 1
            /\ \A w \in Writers(a) : mux[a] = w)
    /\ [](ret.members.done =>
            /\ \A w \in Workers : worker[w].state = "exited"
            /\ mux = Unlocked)
    /\ [][/\ errs' # errs => \E w \in Writers("em") : worker[w].state = "writing"
          /\ membersMap' # membersMap =>
                \E w \in Writers("om") : worker[w].state = "writing"]_vars

\* One worker is writing its page under the output mutex while another
\* waits in om.Lock() with its own page.
C12_Witness ==
    \E v, w \in Workers :
        /\ worker[v].state = "writing"
        /\ worker[w].state = "locking"
        /\ MutexOf(job[worker[v].job].err) = "om"
        /\ MutexOf(job[worker[w].job].err) = "om"
        /\ mux.om = v

\* The operation that has just returned was disturbed by no cancellation:
\* no job got the threshold error and no signal came.
Undisturbed == ~ThresholdSeen /\ ~baseCancelled

\* C13: in SetMembers and in a bulk executor an ordinary (non-threshold)
\* error of one job's request does not cancel the operation: the error is
\* appended to the error list, every other job still makes its request, and
\* its outcome is recorded, an error in the error list, a result in the output.
C13_OrdinaryErrorsDoNotStop ==
    /\ (op # "none" /\ ~ThresholdSeen) => ~opCancelled
    /\ (mainpc = "fetched" /\ Undisturbed) =>
          \A j \in DOMAIN job :
              /\ job[j].attempts >= 1
              /\ job[j].err # "canceled"
              /\ job[j].err # "nil" => CopiesIn(Err(job[j].err, j), ret.members.errs) = 1
              /\ job[j].err = "nil" => job[j].ids \subseteq membersMap
    /\ (mainpc = "cleanup" /\ ret.scanin.done /\ Undisturbed) =>
          \A j \in DOMAIN job :
              /\ job[j].attempts >= 1
              /\ job[j].err # "canceled"
              /\ job[j].err # "nil" => CopiesIn(Err(job[j].err, j), ret.scanin.errs) = 1
              /\ job[j].err = "nil" => CopiesIn(j, ret.scanin.out) = 1

\* The first of MaxJobs scans got a non-success status; the others were
\* made and succeeded.
C13_Witness ==
    /\ mainpc = "cleanup"
    /\ ret.scanin.done
    /\ Undisturbed
    /\ Len(job) = MaxJobs
    /\ job[1].err = "status"
    /\ ret.scanin.errs = SetToBag({Err("status", 1)})
    /\ \A j \in 2..MaxJobs : job[j].err = "nil" /\ CopiesIn(j, ret.scanin.out) = 1

\* The requests the page jobs have sent.
PageRequests == UNION {job[j].sent : j \in DOMAIN job}

\* C14: SetMembers dispatches exactly ceil(NumberOfMembers / 100) page jobs,
\* the j-th for the offset 100 * (j - 1) with limit 100; a job requests no
\* other offset than its own, once unless a connection failure makes it
\* retry, so every offset 0, 100, 200, ... below the declared count is
\* requested by one job only; a declared count of 0 dispatches no job and an
\* exact multiple of 100 no extra page.
C14_PageJobs ==
    /\ mainpc # "start" =>
          /\ numJobs * 100 >= set
          /\ numJobs > 0 => (numJobs - 1) * 100 < set
          /\ Len(job) = numJobs
    /\ \A w \in Workers :
          worker[w].state = "running" =>
              /\ call[w].req.query = [limit |-> 100, offset |-> 100 * (worker[w].job - 1)]
              /\ call[w].sent \subseteq {call[w].req}
    /\ \A j \in DOMAIN job :
          /\ job[j].runs <= 1
          /\ \A r \in job[j].sent :
                /\ r.method = "GET"
                /\ r.query = [limit |-> 100, offset |-> 100 * (j - 1)]
          /\ Cardinality(job[j].sent) <= 1
    /\ (mainpc = "fetched" /\ faultsLeft = PageFaults) =>
          /\ \A j \in DOMAIN job : job[j].attempts = 1
          /\ {r.query.offset : r \in PageRequests} = {100 * (j - 1) : j \in 1..numJobs}

\* A set of more than 100 members: two page jobs, the offsets 0 and 100
\* requested once each.
C14_Witness ==
    /\ mainpc = "fetched"
    /\ set = LimitParam + MaxExtra
    /\ numJobs = 2
    /\ \A j \in DOMAIN job : job[j].attempts = 1
    /\ {r.query.offset : r \in PageRequests} = {0, 100}

\* A transport call is in progress.
InProgress(c) == c.pc \in {"select", "inflight"}

Signalled == baseCancelled /\ mainpc # "exited"

\* C16: when SIGINT or SIGTERM arrives during a run, the base context is
\* cancelled: every transport call in flight sees its context cancelled and
\* returns the context's error, no further HTTP attempt is made, and every
\* call begun later returns context.Canceled without an attempt, as after a
\* threshold breach.
C16_SignalCancels ==
    /\ [](Signalled =>
            \A w \in Workers : InProgress(call[w]) => call[w].ctxErr # "none")
    /\ [](\A w \in Workers :
            /\ (call[w].pc = "returned" /\ call[w].ctxErr # "none")
                  => call[w].err = call[w].ctxErr
            /\ (call[w].pc = "returned" /\ call[w].entered)
                  => (call[w].err = "canceled" /\ call[w].attempts = 0))
    /\ [][Signalled => \A w \in Workers : call'[w].attempts <= call[w].attempts]_vars
    /\ [][Signalled =>
            \A w \in Workers :
                (call[w].pc = "idle" /\ call'[w].pc # "idle") => call'[w].entered]_vars

\* The signal came while scans were in flight: a scan in flight ended with
\* context.Canceled after its one attempt, a scan begun later without any.
C16_Witness ==
    /\ Signalled
    /\ op = "scanin"
    /\ ~ThresholdSeen
    /\ \E i, j \in DOMAIN job :
          /\ job[i].err = "canceled" /\ job[i].attempts = 1
          /\ job[j].err = "canceled" /\ job[j].attempts = 0

\* C17: when the response carries no X-Exl-Api-Remaining header, or one that
\* is not an integer, the transport call raises no error and invokes no
\* cancellation on that account: it returns the body, and a nil error exactly
\* when the status is the success status of the method.
C17_HeaderTolerated ==
    (Returned(TheCall) /\ GotResponse(TheCall) /\ TheCall.resp.rem.kind # "int") =>
        /\ TheCall.err \in {"nil", "status"}
        /\ TheCall.err = "nil" <=>
              \/ (TheCall.method = "DELETE" /\ TheCall.resp.status = 204)
              \/ (TheCall.method # "DELETE" /\ TheCall.resp.status = 200)
        /\ TheCall.body = TheCall.resp.body
        /\ ~TheCall.invoked

\* A GET answered 200 with a header that is no number: success.
C17_Witness ==
    /\ variant = "api"
    /\ Returned(TheCall)
    /\ TheCall.method = "GET"
    /\ TheCall.resp.rem = BadHeader
    /\ TheCall.resp.status = 200
    /\ TheCall.resp.fault = "none"
    /\ TheCall.err = "nil"

\* C18: every HTTP attempt of Do, retries included, sends the request it was
\* handed with the scheme https, the client's Host in place of whatever host
\* the request named, and the value apikey <Key> among its Authorization
\* header values.
C18_SchemeHostKey ==
    variant = "api" =>
        /\ TheCall.attempts > 0 => TheCall.sent # {}
        /\ \A r \in TheCall.sent :
              /\ r.scheme = "https"
              /\ r.host = ClientHost
              /\ \E i \in DOMAIN r.auth : r.auth[i] = <<"apikey", ClientKey>>
              /\ r.method = TheCall.given.method
              /\ r.target = TheCall.given.target
              /\ r.query = TheCall.given.query

\* A request for another host over http, sent twice because the first
\* attempt failed to connect.
C18_Witness ==
    /\ variant = "api"
    /\ Returned(TheCall)
    /\ TheCall.given.scheme = "http"
    /\ TheCall.given.host = "elsewhere.example"
    /\ TheCall.attempts = 2
    /\ TheCall.err = "nil"
    /\ \E r \in TheCall.sent : r.host = ClientHost /\ r.scheme = "https"

\* C19: SetIDFromName returns the ID of a candidate of the reply whose name
\* equals the requested name once white space is trimmed from both ends of
\* both; it returns an ID whenever the reply holds such a candidate, and when
\* it holds none (no candidate at all, or only names that contain the
\* requested one) it returns an error and no ID.
ExactMatches ==
    {i \in DOMAIN lookup.reply.sets :
        TrimSpace(lookup.reply.sets[i].Name) = TrimSpace(lookup.name)}

C19_ExactNameOnly ==
    lookup.pc = "returned" =>
        /\ lookup.err = "nil" =>
              \E i \in ExactMatches : lookup.id = lookup.reply.sets[i].ID
        /\ ExactMatches = {} => lookup.err # "nil" /\ lookup.id = NoID
        /\ ExactMatches # {} => lookup.err = "nil"
        /\ (lookup.reply.kind = "sets" /\ ExactMatches = {}) =>
              lookup.err = "notfound"

\* The reply holds a name that only contains the requested one before the
\* one that equals it up to white space; the second one's ID is returned.
C19_Witness ==
    /\ lookup.pc = "returned"
    /\ lookup.name # TrimSpace(lookup.name)
    /\ Len(lookup.reply.sets) = 2
    /\ NameContains(lookup.reply.sets[1].Name, TrimSpace(lookup.name))
    /\ 1 \notin ExactMatches
    /\ lookup.reply.sets[2].Name # lookup.name
    /\ lookup.err = "nil"
    /\ lookup.id = lookup.reply.sets[2].ID

\* C20: when ItemMembersScanIn has returned from N members without a
\* connection failure and without a cancellation, it has issued exactly N
\* HTTP calls, one per member: a POST to the member's link with op=scan,
\* register_in_house_use=false and the given circ_desk and library. A
\* member's item is among the items returned exactly when its call ended
\* without an error, and a member whose call failed has exactly one error
\* among the errors returned; nothing else is returned.
ScanOf(j) ==
    [method |-> "POST", scheme |-> "https", host |-> ClientHost, target |-> j,
     query |-> [op |-> "scan", register_in_house_use |-> "false",
                circ_desk |-> CircDesk, library |-> Library],
     auth |-> <<ApiKey(ClientKey)>>]

NoConnectionFailure == \A j \in DOMAIN job : job[j].fails = 0

Failed == {j \in DOMAIN job : job[j].err # "nil"}

C20_OneScanPerMember ==
    (mainpc = "cleanup" /\ ret.scanin.done /\ Undisturbed /\ NoConnectionFailure) =>
        /\ Len(job) = Len(ret.members.out)
        /\ \A j \in DOMAIN job :
              /\ job[j].runs = 1
              /\ job[j].attempts = 1
              /\ job[j].sent = {ScanOf(j)}
              /\ CopiesIn(j, ret.scanin.out) = (IF j \in Failed THEN 0 ELSE 1)
              /\ ErrorsOf(ret.scanin.errs, j) = (IF j \in Failed THEN 1 ELSE 0)
        /\ BagCardinality(ret.scanin.out) = Len(job) - Cardinality(Failed)
        /\ BagCardinality(ret.scanin.errs) = Cardinality(Failed)

\* Three members, the second of which is answered with a status that fails:
\* three POSTs, two items and one error.
C20_Witness ==
    /\ mainpc = "cleanup"
    /\ ret.scanin.done
    /\ Undisturbed
    /\ NoConnectionFailure
    /\ Len(job) = 3
    /\ \A j \in DOMAIN job : job[j].sent = {ScanOf(j)}
    /\ Failed = {2}
    /\ job[2].err = "status"
    /\ BagCardinality(ret.scanin.out) = 2
    /\ BagCardinality(ret.scanin.errs) = 1

\* C29: CleanupCallNumberSubfield returns what its documented rules give: in
\* particular a space followed by two or more periods is left as the space
\* and one period, whatever follows the periods.
C29_ExtraPeriodsRemoved ==
    clean.pc = "returned" => clean.result = CleanupAsDocumented(clean.arg)

\* C30: in the channel variant no call stays blocked: a call that has read
\* its response and sends its remaining-call count always has the monitor
\* to receive it, so the call returns to its caller, also when the monitor
\* has stopped while other calls were in flight.
C30_NoCallBlocked ==
    \A p \in Procs : call[p].pc = "sending" => monitor = "running"

\* ------------------------------------------------------------------ C25
\* The members SetMembers handed to the scan-in run.
Members == Range(ret.members.out)

\* C25: the report of a scan-in run has one row per member of the set,
\* stating whether the scan was applied: "yes" for the members scanned in,
\* "no" for those whose scan failed or was left out.
C25_RowPerMember ==
    run.sub = "scanin" /\ run.written =>
        run.report = {[item |-> m, scanned |-> m \in run.changed] : m \in Members}

\* ------------------------------------------------------------------ C26
\* An error was collected: by SetMembers, or by the bulk operation that ran
\* last (Run returns after the first operation that hands back errors).
ErrorCollected == ret.members.errs # EmptyBag \/ errs # EmptyBag

NothingStarted ==
    /\ jobs = "none"
    /\ job = <<>>
    /\ \A w \in Workers : worker[w].state = "none" /\ call[w] = IdleCall
    /\ run.methods = {}

\* C27: when the API key is missing, the flags are not valid, the access
\* check fails or no set is found, no worker pool is ever started, no
\* per-member call is sent, and the process exits with a code other than 0.
C27_EarlyExit ==
    run.failedAt \in {"key", "flags", "access", "set"} =>
        /\ NothingStarted
        /\ mainpc = "exited" => run.exit # 0

\* The process has exited with 1 after no set was found.
C27_Witness ==
    /\ mainpc = "exited"
    /\ run.failedAt = "set"
    /\ run.exit = 1
    /\ NothingStarted

\* ------------------------------------------------------------------ C23
\* The methods of the requests sent since the access check: by the
\* operations that have returned, by the jobs that have ended, by the calls
\* in progress.
AllMethods ==
    run.methods \cup MethodsSent
    \cup {q.method : q \in UNION {call[w].sent : w \in Workers}}

\* C23: in a dry run of scan-in, cancel-requests or call-number clean-up every
\* request sent after the access check is a GET: no scan POST, no request
\* DELETE, no holding PUT.
C23_DryRunOnlyGets == dryrun => AllMethods \subseteq {"GET"}

\* A dry run of cancel-requests has written its report with a request that
\* matches the filter, one of clean-up with a call number to clean.
C23_Witness ==
    /\ dryrun
    /\ mainpc = "exited"
    /\ run.written
    /\ run.exit = 0
    /\ Matching(run) # {} \/ run.cleaned # {}
    /\ "GET" \in AllMethods

\* ------------------------------------------------------------------ C28
\* The requests the jobs and calls of the operation in progress have sent.
SentByOperation ==
    UNION {job[j].sent : j \in DOMAIN job} \cup UNION {call[w].sent : w \in Workers}

\* C28: ItemMembersUserRequests sends GET requests only, on the requests of
\* the member of each job, whatever the server answers; a view-requests run
\* sends nothing but GETs.
C28_RequestsReadOnly ==
    /\ op = "requests" =>
          \A q \in SentByOperation :
              /\ q.method = "GET"
              /\ \E j \in DOMAIN job : q.target = <<"requests", run.input[j]>>
    /\ run.sub = "requests" => AllMethods \subseteq {"GET"}

\* ItemMembersUserRequests has returned two requests on an item in a
\* view-requests run, which has reported them and ended.
C28_Witness ==
    /\ run.sub = "requests"
    /\ mainpc = "exited"
    /\ run.step = 1
    /\ Cardinality(run.requests) = 2
    /\ Cardinality(run.report) = 2

\* ------------------------------------------------------------------ C22
\* C22: the report of cancel-requests has one row for every request fetched,
\* and the row of a request that does not match the type and subtype filter
\* says that it was neither matched nor cancelled, whatever happened to the
\* other requests on its item.
C22_RowPerRequest ==
    run.sub = "cancel" /\ run.written =>
        \A u \in run.requests :
            /\ Cardinality({row \in run.report : row.id = u.id}) = 1
            /\ ~MatchTypeSubType(u, run.rtype, run.subtype) =>
                  \A row \in run.report :
                      row.id = u.id => ~row.matched /\ ~row.cancelled

\* ------------------------------------------------------------------ C24
\* C24: for every holding whose call number the clean-up changes, the row of
\* the report shows the call number as the server sent it in the original
\* column and the cleaned call number in the updated column, in a dry run
\* and in a normal run; the holdings list handed to CleanUpCallNumbers still
\* holds the records as fetched.
C24_OriginalAndUpdated ==
    run.sub = "cleanup" /\ run.written =>
        /\ \A h \in HoldingsInAlma, row \in run.report :
              row.link = h.id /\ CleanupCallNumberSubfield(h.call) # h.call =>
                  /\ row.original = h.call
                  /\ row.updated = CleanupCallNumberSubfield(h.call)
        /\ run.holdings \subseteq HoldingsInAlma

\* ------------------------------------------------------------------ C21
\* The request u passes the -type and -subtype filter of the run.
PassesFilter(u) ==
    /\ run.rtype = "" \/ u.type = run.rtype
    /\ run.subtype = "" \/ u.subtype = run.subtype

\* The fetched requests that pass the filter, by ID.
Passing == {u.id : u \in {x \in run.requests : PassesFilter(x)}}

\* The jobs of UserRequestsCancel, in progress or returned.
CancelJobs ==
    IF run.sub = "cancel" /\ (op = "cancel" \/ run.step = 2) THEN DOMAIN job ELSE {}

\* The requests for which a DELETE has been sent.
DeleteSent ==
    {run.input[j] : j \in {k \in CancelJobs : job[k].sent # {}}}
    \cup {run.input[worker[w].job] :
             w \in {v \in Workers : op = "cancel" /\ call[v].sent # {}}}

\* The DELETE that cancels the request with the ID id.
DeleteOf(id) ==
    [method |-> "DELETE", scheme |-> "https", host |-> ClientHost,
     target |-> <<"cancel", id>>, query |-> NoQuery, auth |-> <<ApiKey(ClientKey)>>]

\* C21 as stated: once a cancel-requests run that is no dry run has ended,
\* a DELETE has been sent for exactly the fetched requests that pass the
\* filter.
C21_Original ==
    (run.sub = "cancel" /\ ~dryrun /\ mainpc = "exited" /\ run.failedAt = "none") =>
        DeleteSent = Passing

\* C21, amended: a DELETE is only ever sent for a fetched request that passes
\* the type and subtype filter (an empty filter field passes anything), never
\* in a dry run; and when the run is no dry run and the members and their
\* requests were fetched without error, one is sent for every such request
\* whose job did not find the context cancelled.
C21_DeleteOnlyMatching ==
    /\ "DELETE" \in AllMethods => CancelJobs # {} /\ ~dryrun
    /\ \A j \in CancelJobs :
          /\ run.input[j] \in Passing
          /\ job[j].sent \subseteq {DeleteOf(run.input[j])}
    /\ DeleteSent \subseteq Passing
    /\ (run.sub = "cancel" /\ ~dryrun /\ mainpc = "exited" /\ run.step >= 1
           /\ ret.members.errs = EmptyBag /\ (run.step = 1 => errs = EmptyBag)) =>
          /\ run.step = 2
          /\ \A id \in Passing :
                \E j \in DOMAIN job :
                    /\ run.input[j] = id
                    /\ job[j].sent = {DeleteOf(id)} \/ job[j].err = "canceled"

\* Two requests pass the filter; the DELETE of one was answered with 204, the
\* other one was sent and failed.
C21_Witness ==
    /\ run.sub = "cancel"
    /\ mainpc = "exited"
    /\ Passing = {1, 2}
    /\ DeleteSent = {1, 2}
    /\ run.changed = {1}
    /\ job[2].err = "status"

\* ------------------------------------------------------------------ C38
\* C38: the pauses before the attempts of one Do call are 0, 1, 2, ... seconds
\* and all attempts share the window of RequestTimeout seconds, so a call
\* makes at most 8 HTTP attempts (pauses of 0 + 1 + ... + 7 = 28 seconds); a
\* call that made 8 attempts without a response returns the error of its
\* context.
C38_AtMostEightAttempts ==
    variant = "api" =>
        /\ TheCall.attempts <= 8
        /\ \A i \in 1..Len(TheCall.waits) : TheCall.waits[i] = i - 1
        /\ (Returned(TheCall) /\ TheCall.attempts = 8 /\ TheCall.resp = NoResp) =>
              TheCall.err \in {"deadline", "canceled"}

\* Eight attempts, each failed at connection level at once, then the
\* deadline passes during the pause of eight seconds.
C38_Witness ==
    /\ variant = "api"
    /\ Returned(TheCall)
    /\ TheCall.attempts = 8
    /\ TheCall.waits = <<0, 1, 2, 3, 4, 5, 6, 7>>
    /\ TheCall.fails = 8
    /\ TheCall.err = "deadline"

\* ------------------------------------------------------------------ C35
\* C35: requestWithBackoff of package main never calls client.Do when its
\* base context is already cancelled at the time of the call: it makes no
\* HTTP attempt and returns the error context.Canceled, whichever ready case
\* its select picks.
C35_NoAttemptWhenCancelled ==
    (variant = "legacy" /\ TheCall.entered) =>
        /\ TheCall.attempts = 0
        /\ Returned(TheCall) => TheCall.err = "canceled"

\* ------------------------------------------------------------------ C32
\* The jobs a worker has taken from the channel and whose closure has not
\* returned.
InExecution == {j \in 1..numJobs : job[j].runs > 0 /\ job[j].err = "none"}

\* C32: at every moment of a bulk operation the number of jobs being executed
\* is at most the number of workers; the jobs channel is unbuffered, so a
\* send has completed only for jobs a worker took: every job sent is being
\* executed by exactly one worker or has ended.
C32_AtMostWorkersJobs ==
    op # "none" =>
        /\ Cardinality(InExecution) <= NumWorkers
        /\ InExecution = {worker[w].job : w \in {v \in Workers : worker[v].state = "running"}}
        /\ \A v, w \in Workers :
              (worker[v].state = "running" /\ worker[w].state = "running"
                  /\ worker[v].job = worker[w].job) => v = w
        /\ submitted = Cardinality(InExecution)
                         + Cardinality({j \in 1..numJobs : job[j].err # "none"})

\* More jobs than workers: every worker is running a job and the loop is
\* blocked in the send of the next one.
C32_Witness ==
    /\ op = "scanin"
    /\ mainpc = "submit"
    /\ numJobs > NumWorkers
    /\ submitted = NumWorkers
    /\ \A w \in Workers : worker[w].state = "running"
    /\ Cardinality(InExecution) = NumWorkers

\* ------------------------------------------------------------------ C37
\* The bulk operation of the run that returned last gives one result per job.
OnePerJobReturned ==
    /\ mainpc = "fetched"
    /\ run.step >= 1
    /\ Operations(run.sub)[run.step] \in {"scanin", "cancel", "holdings", "update"}

\* C37: when a bulk operation with one result per job returns, its results
\* and its errors together are as many as the items submitted, in every run,
\* also one cancelled midway: every job left one entry, and a job submitted
\* after the cancellation was still dispatched, made no HTTP attempt and
\* added exactly one error.
C37_ResultsPlusErrors ==
    OnePerJobReturned =>
        /\ numJobs = Len(run.input)
        /\ BagCardinality(scannedIn) + BagCardinality(errs) = Len(run.input)
        /\ \A j \in 1..numJobs :
              /\ job[j].runs = 1
              /\ CopiesIn(j, scannedIn) + ErrorsOf(errs, j) = 1
              /\ (job[j].late \/ (job[j].err = "canceled" /\ job[j].attempts = 0)) =>
                    /\ job[j].attempts = 0
                    /\ CopiesIn(j, scannedIn) = 0
                    /\ CopiesIn(Err("canceled", j), errs) = 1

\* Two jobs: one gave its result, then the run was cancelled and the other
\* was handed to a worker with the cancelled context.
C37_Witness ==
    /\ OnePerJobReturned
    /\ Len(run.input) = 2
    /\ BagCardinality(scannedIn) = 1
    /\ BagCardinality(errs) = 1
    /\ \E j \in 1..numJobs : job[j].err = "canceled" /\ job[j].attempts = 0

\* ------------------------------------------------------------------ C33
\* C33: a subcommand makes a state-changing call (the POST of a scan, the
\* DELETE of a request, the PUT of a holdings record) only after its member
\* fetch has returned with an empty error list: after a page error or a
\* mismatch between the members found and the count the set declares,
\* nothing is scanned in, cancelled or updated.
C33_NoChangeAfterFailedFetch ==
    /\ ~ret.members.done => AllMethods \subseteq {"GET"}
    /\ (ret.members.done /\ (ret.members.errs # EmptyBag
                               \/ Cardinality(membersMap) # set)) =>
          /\ AllMethods \subseteq {"GET"}
          /\ run.changed = {}
          /\ run.step = 0

\* The pages were fetched without an error but gave another number of
\* members than the set declares; the run ended without a changing call.
C33_Witness ==
    /\ mainpc = "exited"
    /\ run.sub \in {"scanin", "cancel", "cleanup"}
    /\ ~dryrun
    /\ ret.members.done
    /\ \E e \in BagToSet(ret.members.errs) : e.kind = "mismatch"
    /\ BagCardinality(ret.members.errs) = 1
    /\ AllMethods = {"GET"}
    /\ run.exit = 1

\* ------------------------------------------------------------------ C34
\* C34: the body of every response Do receives is read and then closed,
\* exactly once, on every path: a read error, a close error, a remaining-call
\* count at or below the threshold, a non-success status, success.  When Do
\* returns no body is left open and none was closed twice; a call that got
\* no response touched no body.
C34_BodyReadAndClosedOnce ==
    /\ TheCall.resp # NoResp =>
          /\ TheCall.bodyOps = <<"read", "close">>
          /\ Returned(TheCall)
          /\ TheCall.err \in {"read", "close", "threshold", "status", "nil"}
    /\ TheCall.resp = NoResp => TheCall.bodyOps = <<>>
    /\ (Returned(TheCall) /\ TheCall.err \in {"read", "close", "threshold", "status", "nil"})
          => TheCall.resp # NoResp

\* The read of the body failed; the call closed the body and returned the
\* read error.
C34_Witness ==
    /\ Returned(TheCall)
    /\ TheCall.resp # NoResp
    /\ TheCall.resp.fault = "read"
    /\ TheCall.err = "read"
    /\ TheCall.bodyOps = <<"read", "close">>

\* ------------------------------------------------------------------ C31
\* C31: under fair scheduling a bulk operation terminates, for any list of
\* jobs and any mix of successes, failures, time-outs and cancellation: every
\* job submitted ends, all workers leave their loop, and the operation
\* returns its results and its errors.
C31_BulkOperationTerminates ==
    <>(/\ op = "none"
       /\ ret.members.done
       /\ \A w \in Workers : worker[w].state = "exited" /\ call[w].pc = "idle"
       /\ \A j \in 1..numJobs : job[j].runs = 1 /\ job[j].err # "none")

\* An operation that returned although a page request had timed out and the
\* run was cancelled while it was going on.
C31_Witness ==
    /\ ret.members.done
    /\ op = "none"
    /\ numJobs = 2
    /\ \A w \in Workers : worker[w].state = "exited"
    /\ \E j \in 1..numJobs : job[j].err = "deadline"
    /\ \E j \in 1..numJobs : job[j].err = "canceled"


\* ------------------------------------------------------------------ C39
\* C39: on every path after main has started its helper goroutine (a failed
\* access check, an error of Run, success) main calls cancel() on the base
\* context before wg.Wait(): while main waits the context is cancelled, so
\* the goroutine's ctx.Done() case is ready or the goroutine has returned and
\* wg.Wait() can return; the process exits only after the goroutine has
\* returned.
C39_CancelBeforeWait ==
    /\ mainpc = "waiting" =>
          /\ baseCancelled
          /\ monitor \in {"running", "stopped"}
          /\ monitor = "running" => ENABLED MonitorCtxDone
          /\ monitor = "stopped" => ENABLED MainReturns
    /\ mainpc = "exited" =>
          /\ monitor \in {"none", "stopped"}
          /\ monitor = "none" <=> run.failedAt \in {"key", "flags"}
          /\ monitor = "stopped" => baseCancelled
    /\ (monitor = "stopped" /\ mainpc # "exited") => baseCancelled

\* No signal came: main's own cancel() let the goroutine return, and the
\* process exited with 0 after a run that changed something.
C39_Witness ==
    /\ mainpc = "exited"
    /\ monitor = "stopped"
    /\ faultsLeft = MaxFaults
    /\ run.exit = 0
    /\ run.changed # {}

\* ------------------------------------------------------------------ C40
\* C40: items-cancel-requests, items-scan-in and the call-number clean-up
\* resolve their set by ID when only -setid is given, SetFromID being called
\* with that ID and no search by name being made, and by name when only
\* -setname is given, SetIDFromName being called with that name and
\* SetFromID with the ID it found.
C40_ResolvedAsFlagged ==
    resolve.site \in {"part_008:52", "part_009:56", "cleanupcallnumbers.go:54"} =>
        LET calls == resolve.calls
        IN  /\ (resolve.setid # <<>> /\ resolve.setname = <<>>) =>
                  /\ \A i \in DOMAIN calls :
                        calls[i] = [fn |-> "SetFromID", arg |-> resolve.setid]
                  /\ resolve.pc = "returned" => Len(calls) = 1
            /\ (resolve.setname # <<>> /\ resolve.setid = <<>>) =>
                  /\ calls # <<>> =>
                        calls[1] = [fn |-> "SetIDFromName", arg |-> resolve.setname]
                  /\ Len(calls) >= 2 =>
                        calls[2] = [fn |-> "SetFromID", arg |-> resolve.ID]
                  /\ resolve.pc = "returned" =>
                        Len(calls) = (IF resolve.err = "name" THEN 1 ELSE 2)

\* ------------------------------------------------------------------ C36
\* C36: GetMemberIDs terminates for every number of members and every number
\* of workers, also when the context is cancelled before or during the
\* fetch: no worker is ever blocked in a send on errorsChan or on
\* memberIDsChan (nothing receives from either before wg.Wait() has
\* returned, so a send that finds its channel full never completes).
C36_NoWorkerBlockedInSend ==
    fetch.pc = "wait" =>
        \A w \in Workers :
            /\ fetch.at[w] = "sendErr" => fetch.errors < fetch.offsets
            /\ fetch.at[w] = "sendIDs" => fetch.ids < fetch.offsets

=============================================================================
